---- MODULE Spec2Model ----
(***************************************************************************)
(* A model of kgb (beanbaginc/kgb): function spies, their call records,    *)
(* the call-matching predicate and the spy operations.                     *)
(*                                                                         *)
(* Python values are modelled by integers, None by a reserved integer, a   *)
(* dict keyed by argument names by a total function into Val \cup {Absent},*)
(* and an exception object by a record carrying its class and the fields   *)
(* its message is formatted from.                                          *)
(*                                                                         *)
(* Spec is one spied function under spy_on(), calls, reset_calls() and     *)
(* SpyAgency.unspy(); CalledWithSpec is SpyCall.called_with as a function  *)
(* of its arguments; AgencySpec is an agency with two functions, under     *)
(* FunctionSpy.unspy(unregister) and unspy_all() as well.                  *)
(***************************************************************************)
EXTENDS Integers, Sequences, FiniteSets, TLC

\* ------------------------------------------------------------------ bounds
\* Calls a spy intercepts between spy_on() and unspy().
MaxCalls == 2
\* Positional arguments of a call record in CalledWithSpec.
MaxPos == 2
\* Expected positional arguments given to called_with() in CalledWithSpec.
MaxExpectedPos == 2

\* The argument values the tests use.
Val == {1, 2}

\* ------------------------------------------------------- values and names
\* Python's None (the initial return_value / exception of a SpyCall).
None == 0 - 99
\* A key that is not in a dict / a parameter without a default
\* (inspect.Parameter.empty).
Absent == 0 - 98
\* The MathClass instance the bound methods are called on.
Obj == 0 - 50

KwNames == {"a", "b", "x"}
Names == {"self", "a", "b", "x"}

TYPE_FUNCTION == 0
TYPE_BOUND_METHOD == 1
TYPE_UNBOUND_METHOD == 2

Min(i, j) == IF i < j THEN i ELSE j

\* dict helpers: a kwargs dict is a function KwNames -> Val \cup {Absent}.
NoKwargs == [k \in KwNames |-> Absent]
Keys(d) == {k \in DOMAIN d : d[k] # Absent}
KwargsSets == [KwNames -> Val \cup {Absent}]

\* dict.update(): entries of d2 override those of d1.
DictUpdate(d1, d2) ==
  [k \in DOMAIN d1 |-> IF k \in DOMAIN d2 /\ d2[k] # Absent THEN d2[k] ELSE d1[k]]

\* dict(zip(names, values)): zip stops at the shorter of the two.
RECURSIVE DictZip(_, _)
DictZip(names, values) ==
  IF names = <<>> \/ values = <<>>
  THEN [k \in Names |-> Absent]
  ELSE [DictZip(Tail(names), Tail(values)) EXCEPT ![Head(names)] = Head(values)]

\* s[1:]
Rest(s) == IF s = <<>> THEN <<>> ELSE Tail(s)

RECURSIVE SeqToSet(_)
SeqToSet(s) == IF s = <<>> THEN {} ELSE {Head(s)} \cup SeqToSet(Tail(s))

\* All sequences over S of length at most n.
RECURSIVE SeqsUpTo(_, _)
SeqsUpTo(S, n) ==
  IF n = 0 THEN {<<>>}
  ELSE LET shorter == SeqsUpTo(S, n - 1)
       IN shorter \cup {Append(s, v) : s \in {q \in shorter : Len(q) = n - 1}, v \in S}

\* ------------------------------------------------------------- exceptions
\* An exception object: its class and the values its message is built from.
Exc(cls, spy, num_calls, expected_calls, exp_args, exp_kwargs, call_args, call_kwargs) ==
  [cls |-> cls, spy |-> spy, num_calls |-> num_calls,
   expected_calls |-> expected_calls,
   exp_args |-> exp_args, exp_kwargs |-> exp_kwargs,
   call_args |-> call_args, call_kwargs |-> call_kwargs]

PlainExc(cls) == Exc(cls, "", 0, 0, <<>>, NoKwargs, <<>>, NoKwargs)

\* "no exception": the value of SpyCall.exception while it is None.
NoExc == PlainExc("None")

\* Classes derived from Exception, which "except Exception" catches.
ExceptionClasses ==
  {"TypeError", "ValueError", "KeyError", "AssertionError", "AttributeError",
   "UnexpectedCallError"}
\* Classes derived from BaseException only.
BaseOnlyClasses == {"KeyboardInterrupt"}

IsException(e) == e.cls \in ExceptionClasses

\* What an invocation produces: a returned value or a raised exception.
Return(v) == [kind |-> "return", value |-> v, exc |-> NoExc]
Raise(e) == [kind |-> "raise", value |-> None, exc |-> e]

\* ------------------------------------------------------------- signatures
Param(name, kind, default) == [name |-> name, kind |-> kind, default |-> default]

\* The callables spied on and given as call_fake: those of the test suite
\* (MathClass.do_math and do_math_mixed, do_math_pos, fake_do_math and the
\* lambda a, b: a - b of the operation tests), and fakes that raise.
Func(f) ==
  CASE f = "do_math" ->
         [name |-> "do_math", type |-> TYPE_BOUND_METHOD, body |-> "add",
          params |-> << Param("self", "POK", Absent), Param("a", "POK", 1),
                        Param("b", "POK", 2), Param("args", "VARPOS", Absent),
                        Param("kwargs", "VARKW", Absent) >>]
    [] f = "do_math_mixed" ->
         [name |-> "do_math_mixed", type |-> TYPE_BOUND_METHOD, body |-> "add",
          params |-> << Param("self", "POK", Absent), Param("a", "POK", Absent),
                        Param("b", "POK", 2), Param("args", "VARPOS", Absent),
                        Param("kwargs", "VARKW", Absent) >>]
    [] f = "do_math_pos" ->
         [name |-> "do_math_pos", type |-> TYPE_FUNCTION, body |-> "sub",
          params |-> << Param("a", "POK", Absent), Param("b", "POK", Absent) >>]
    [] f = "fake_do_math" ->
         [name |-> "fake_do_math", type |-> TYPE_FUNCTION, body |-> "sub",
          params |-> << Param("self", "POK", Absent), Param("a", "POK", Absent),
                        Param("b", "POK", Absent), Param("args", "VARPOS", Absent),
                        Param("kwargs", "VARKW", Absent) >>]
    [] f = "fake_raise" ->
         [name |-> "fake_raise", type |-> TYPE_FUNCTION, body |-> "raise_value_error",
          params |-> << Param("args", "VARPOS", Absent),
                        Param("kwargs", "VARKW", Absent) >>]
    [] f = "fake_interrupt" ->
         [name |-> "fake_interrupt", type |-> TYPE_FUNCTION, body |-> "raise_interrupt",
          params |-> << Param("args", "VARPOS", Absent),
                        Param("kwargs", "VARKW", Absent) >>]
    [] f = "lambda_ab" ->
         [name |-> "lambda_ab", type |-> TYPE_FUNCTION, body |-> "sub",
          params |-> << Param("a", "POK", Absent), Param("b", "POK", Absent) >>]

\* The names of a list of parameters, in declaration order.
NamesOf(params) == [i \in 1..Len(params) |-> params[i].name]

HasKind(params, kind) == \E i \in 1..Len(params) : params[i].kind = kind

\* FunctionSigPy3.__init__: sort the parameters into the name lists.
FunctionSigPy3(fn) ==
  LET params == fn.params
  IN [func_name |-> fn.name,
      func_type |-> fn.type,
      all_arg_names |-> NamesOf(SelectSeq(params, LAMBDA p : p.kind = "POK")),
      arg_names |-> NamesOf(SelectSeq(params, LAMBDA p :
                                        p.kind = "POK" /\ p.default = Absent)),
      kwarg_names |-> NamesOf(SelectSeq(params, LAMBDA p :
                                          \/ p.kind = "POK" /\ p.default # Absent
                                          \/ p.kind = "KWO")),
      args_param_name |-> HasKind(params, "VARPOS"),
      kwargs_param_name |-> HasKind(params, "VARKW")]

\* The signature of one of the callables of Func.
FunctionSig(f) == FunctionSigPy3(Func(f))

\* ------------------------------------------------- Python call semantics
\* Binding of a call's arguments to a parameter list, as the interpreter does
\* it on entry to a function: ok is FALSE when the call raises TypeError.
PyBind(params, pos, kw) ==
  LET pp == SelectSeq(params, LAMBDA p : p.kind = "POK")
      n == Len(pp)
      npos == Min(Len(pos), n)
      boundPos == {pp[i].name : i \in 1..npos}
      named == {params[i].name : i \in {j \in 1..Len(params) :
                                          params[j].kind \in {"POK", "KWO"}}}
      kwGiven == Keys(kw)
      tooMany == Len(pos) > n /\ ~HasKind(params, "VARPOS")
      multiple == \E k \in kwGiven : k \in boundPos
      unexpected == \E k \in kwGiven : k \notin named /\ ~HasKind(params, "VARKW")
      posIndex(nm) == CHOOSE i \in 1..npos : pp[i].name = nm
      valOf(p) == IF p.name \in boundPos THEN pos[posIndex(p.name)]
                  ELSE IF p.name \in kwGiven THEN kw[p.name]
                  ELSE p.default
      missing == \E i \in 1..Len(params) :
                    /\ params[i].kind \in {"POK", "KWO"}
                    /\ valOf(params[i]) = Absent
      byName(nm) == LET i == CHOOSE j \in 1..Len(params) : params[j].name = nm
                    IN valOf(params[i])
  IN [ok |-> ~(tooMany \/ multiple \/ unexpected \/ missing),
      vals |-> [nm \in Names |-> IF nm \in named THEN byName(nm) ELSE Absent],
      extra |-> SubSeq(pos, n + 1, Len(pos)),
      kwextra |-> [k \in KwNames |-> IF k \in kwGiven \ named THEN kw[k] ELSE Absent]]

\* What the body of a callable does with its bound arguments.
Body(f, vals) ==
  LET body == Func(f).body
  IN CASE body = "add" -> Return(vals["a"] + vals["b"])
       [] body = "sub" -> Return(vals["a"] - vals["b"])
       [] body = "raise_value_error" -> Raise(PlainExc("ValueError"))
       [] body = "raise_interrupt" -> Raise(PlainExc("KeyboardInterrupt"))

\* f(*args, **kwargs) for a plain callable of the test suite.
CallFunc(f, args, kwargs) ==
  LET b == PyBind(Func(f).params, args, kwargs)
  IN IF b.ok THEN Body(f, b.vals) ELSE Raise(PlainExc("TypeError"))

\* Forwarding that passes every positional-or-keyword parameter positionally,
\* those with a default included.
ForwardArgsAll(sig, b) ==
  [i \in 1..Len(sig.all_arg_names) |-> b.vals[sig.all_arg_names[i]]] \o b.extra

\* BaseFunctionSig.format_forward_call_args: the generated proxy passes every
\* parameter without a default positionally, then *args; every parameter with
\* a default (and every keyword-only one) by keyword, then **kwargs.
ForwardArgs(sig, b) ==
  [i \in 1..Len(sig.arg_names) |-> b.vals[sig.arg_names[i]]] \o b.extra

ForwardKwargs(sig, b) ==
  [k \in KwNames |-> IF k \in SeqToSet(sig.kwarg_names) THEN b.vals[k]
                     ELSE b.kwextra[k]]

\* --------------------------------------------------------------- SpyCall
\* SpyCall.__init__
SpyCall(args, kwargs) ==
  [args |-> args, kwargs |-> kwargs, return_value |-> None, exception |-> NoExc]

\* The positional names SpyCall.called_with zips the recorded args against.
CalledWithPosArgs(sig) ==
  IF sig.func_type \in {TYPE_BOUND_METHOD, TYPE_UNBOUND_METHOD}
  THEN Rest(sig.arg_names)
  ELSE sig.arg_names

\* all_args built the other way round: the keyword arguments first, then
\* updated with the zipped positional ones.
AllArgsPositionalLast(sig, call) ==
  LET zipped == DictZip(CalledWithPosArgs(sig), call.args)
  IN [k \in Names |-> IF zipped[k] # Absent THEN zipped[k]
                      ELSE IF k \in KwNames THEN call.kwargs[k] ELSE Absent]

\* The all_args dict of SpyCall.called_with.
AllArgs(sig, call) ==
  DictUpdate(DictZip(CalledWithPosArgs(sig), call.args), call.kwargs)

\* SpyCall.called_with(*args, **kwargs)
CalledWith(sig, call, args, kwargs) ==
  IF Len(args) > Len(call.args) THEN FALSE
  ELSE IF SubSeq(call.args, 1, Len(args)) # args THEN FALSE
  ELSE LET all_args == AllArgs(sig, call)
       IN ~\E key \in Keys(kwargs) :
             all_args[key] = Absent \/ all_args[key] # kwargs[key]

\* ------------------------------------------------------------ operations
\* A spy operation: SpyOpReturn, SpyOpRaise, SpyOpMatchAny or SpyOpMatchInOrder
\* ("none" when spy_on() was given no op).
Op(type, return_value, exc, calls) ==
  [type |-> type, return_value |-> return_value, exc |-> exc, calls |-> calls]

NoOp == Op("none", None, NoExc, <<>>)
SpyOpReturn(v) == Op("Return", v, NoExc, <<>>)
SpyOpRaise(e) == Op("Raise", None, e, <<>>)
SpyOpMatchAny(calls) == Op("MatchAny", None, NoExc, calls)
SpyOpMatchInOrder(calls) == Op("MatchInOrder", None, NoExc, calls)

\* A SpyOpReturnInOrder whose expectations all wrap the last value of the
\* list (the loop variable captured late).
SpyOpReturnInOrderLastValue(return_values) ==
  SpyOpMatchInOrder([i \in 1..Len(return_values) |->
     [args |-> <<>>, kwargs |-> NoKwargs, has_op |-> TRUE,
      op |-> SpyOpReturn(return_values[Len(return_values)]),
      call_fake |-> [kind |-> "None", name |-> "", op |-> NoOp],
      call_original |-> TRUE]])

\* SpyOpReturnInOrder.__init__: one {'op': SpyOpReturn(value)} per value.
SpyOpReturnInOrder(return_values) ==
  SpyOpMatchInOrder([i \in 1..Len(return_values) |->
     [args |-> <<>>, kwargs |-> NoKwargs, has_op |-> TRUE,
      op |-> SpyOpReturn(return_values[i]),
      call_fake |-> [kind |-> "None", name |-> "", op |-> NoOp],
      call_original |-> TRUE]])

\* SpyOpRaiseInOrder.__init__: one {'op': SpyOpRaise(exc)} per exception.
SpyOpRaiseInOrder(exceptions) ==
  SpyOpMatchInOrder([i \in 1..Len(exceptions) |->
     [args |-> <<>>, kwargs |-> NoKwargs, has_op |-> TRUE,
      op |-> SpyOpRaise(exceptions[i]),
      call_fake |-> [kind |-> "None", name |-> "", op |-> NoOp],
      call_original |-> TRUE]])

\* Something a spy or a call match configuration may invoke: nothing, a
\* callable of the test suite, or the fake function an operation's setup()
\* returned.
NoFunc == [kind |-> "None", name |-> "", op |-> NoOp]
UserFunc(f) == [kind |-> "user", name |-> f, op |-> NoOp]
OrigFunc(f) == [kind |-> "orig", name |-> f, op |-> NoOp]
OpFunc(op) == [kind |-> "op", name |-> "", op |-> op]

\* A call match configuration: the dict given to a matching operation.
\* has_op says whether the dict has an 'op' key.
Expect(args, kwargs, has_op, op, call_fake, call_original) ==
  [args |-> args, kwargs |-> kwargs, has_op |-> has_op, op |-> op,
   call_fake |-> call_fake, call_original |-> call_original]

\* A setup that leaves a call_fake given next to 'op' in place.
SetupCallKeepFake(call) ==
  IF call.has_op /\ call.call_fake.kind = "None"
  THEN [call EXCEPT !.call_fake = OpFunc(call.op), !.has_op = FALSE, !.op = NoOp]
  ELSE [call EXCEPT !.has_op = FALSE, !.op = NoOp]

\* BaseMatchingSpyOperation.setup: every 'op' is popped and set up, and the
\* fake function it returns becomes the configuration's call_fake.
SetupCall(call) ==
  IF call.has_op
  THEN [call EXCEPT !.call_fake = OpFunc(call.op), !.has_op = FALSE, !.op = NoOp]
  ELSE call

SetupCalls(calls) == [i \in 1..Len(calls) |-> SetupCall(calls[i])]

\* BaseSpyOperation.setup / BaseMatchingSpyOperation.setup, as the operation
\* is after it.
SetupOp(op) ==
  IF op.type \in {"MatchAny", "MatchInOrder"}
  THEN [op EXCEPT !.calls = SetupCalls(op.calls)]
  ELSE op

\* The result of handling a call: the outcome, the operation's cursor after
\* it, the index of the call match configuration used (0: none) and what was
\* invoked to produce the outcome.
Handled(out, next, matched, invoked) ==
  [out |-> out, next |-> next, matched |-> matched, invoked |-> invoked]

\* The message of the UnexpectedCallError of SpyOpMatchAny.
NoMatchError(sig) ==
  Exc("UnexpectedCallError", sig.func_name, 0, 0, <<>>, NoKwargs, <<>>, NoKwargs)

\* The two counts of the message taken for one another.
TooManyCallsErrorSwapped(sig, num_calls, expected_calls, spy_call) ==
  Exc("UnexpectedCallError", sig.func_name, expected_calls, num_calls,
      <<>>, NoKwargs, spy_call.args, spy_call.kwargs)

\* The message of the UnexpectedCallError of SpyOpMatchInOrder.
TooManyCallsError(sig, num_calls, expected_calls, spy_call) ==
  Exc("UnexpectedCallError", sig.func_name, num_calls, expected_calls,
      <<>>, NoKwargs, spy_call.args, spy_call.kwargs)

\* A scan that keeps going and returns the last configuration that matches.
RECURSIVE MatchAnyScanLast(_, _, _, _)
MatchAnyScanLast(sig, calls, spy_call, i) ==
  IF i > Len(calls) THEN 0
  ELSE LET later == MatchAnyScanLast(sig, calls, spy_call, i + 1)
       IN IF later # 0 THEN later
          ELSE IF CalledWith(sig, spy_call, calls[i].args, calls[i].kwargs) THEN i
          ELSE 0

\* SpyOpMatchAny.get_call_match_config: the first configuration, scanning
\* from index i, that the call was called_with; 0 when there is none.
RECURSIVE MatchAnyScan(_, _, _, _)
MatchAnyScan(sig, calls, spy_call, i) ==
  IF i > Len(calls) THEN 0
  ELSE IF CalledWith(sig, spy_call, calls[i].args, calls[i].kwargs) THEN i
  ELSE MatchAnyScan(sig, calls, spy_call, i + 1)

\* get_call_match_config without its "self._next += 1".
MatchInOrderNextStuck(calls, next) ==
  IF next + 1 > Len(calls)
  THEN [index |-> 0, next |-> next]
  ELSE [index |-> next + 1, next |-> next]

\* SpyOpMatchInOrder.get_call_match_config: the configuration at _next, and
\* _next after the call; index 0 when the list is exhausted (IndexError).
MatchInOrderNext(calls, next) ==
  IF next + 1 > Len(calls)
  THEN [index |-> 0, next |-> next]
  ELSE [index |-> next + 1, next |-> next + 1]

\* <op>.get_call_match_config for the two matching operations.
GetCallMatchConfig(sig, op, next, spy_call) ==
  IF op.type = "MatchAny"
  THEN LET i == MatchAnyScan(sig, op.calls, spy_call, 1)
       IN [index |-> i, next |-> next,
           exc |-> IF i = 0 THEN NoMatchError(sig) ELSE NoExc]
  ELSE LET r == MatchInOrderNext(op.calls, next)
       IN [index |-> r.index, next |-> r.next,
           exc |-> IF r.index = 0
                   THEN TooManyCallsError(sig, next + 1, Len(op.calls), spy_call)
                   ELSE NoExc]

\* A validation that wants the call to be exactly the expected one: the same
\* positional arguments and no argument beyond the expected keywords.
ValidateCallStrict(sig, last_call, config) ==
  /\ last_call.args = config.args
  /\ \A k \in KwNames : AllArgs(sig, last_call)[k] = config.kwargs[k]

\* BaseMatchingSpyOperation.validate_call, through
\* SpyAgency.assertSpyCalledWith(spy.last_call, *args, **kwargs): whether the
\* assertion passes.
ValidateCall(sig, last_call, config) ==
  CalledWith(sig, last_call, config.args, config.kwargs)

\* The AssertionError assertSpyCalledWith fails with for a SpyCall.
NotCalledWithError(sig, last_call, config) ==
  Exc("AssertionError", sig.func_name, 0, 0, config.args, config.kwargs,
      last_call.args, last_call.kwargs)

\* FunctionSpy.call_original(*args, **kwargs)
CallOriginal(sig, args, kwargs) ==
  IF sig.func_type = TYPE_BOUND_METHOD
  THEN CallFunc(sig.func_name, <<Obj>> \o args, kwargs)
  ELSE CallFunc(sig.func_name, args, kwargs)

\* SpyOpReturn.handle_call / SpyOpRaise.handle_call
LeafHandleCall(op) ==
  IF op.type = "Return" THEN Return(op.return_value) ELSE Raise(op.exc)

\* The assertion of BaseSpyOperation._on_spy_call: the spy's last call was
\* called with the arguments the fake function received.
OnSpyCallCheck(sig, last_call, args, kwargs) ==
  CalledWith(sig, last_call,
             IF sig.func_type = TYPE_UNBOUND_METHOD THEN Rest(args) ELSE args,
             kwargs)

\* The unbound fake function of a nested SpyOpReturn / SpyOpRaise
\* (setup(spy, force_unbound=True)), then _on_spy_call.
LeafOnSpyCall(sig, op, last_call, args, kwargs) ==
  IF ~OnSpyCallCheck(sig, last_call, args, kwargs)
  THEN Raise(PlainExc("AssertionError"))
  ELSE LeafHandleCall(op)

\* The three ways BaseMatchingSpyOperation.handle_call produces the outcome
\* of a validated call, in its order of preference.
ApplyConfig(sig, config, last_call, args, kwargs) ==
  IF config.call_fake.kind # "None"
  THEN IF config.call_fake.kind = "op"
       THEN [out |-> LeafOnSpyCall(sig, config.call_fake.op, last_call, args, kwargs),
             invoked |-> "op"]
       ELSE [out |-> CallFunc(config.call_fake.name, args, kwargs),
             invoked |-> "call_fake"]
  ELSE IF config.call_original
       THEN [out |-> CallOriginal(sig, args, kwargs), invoked |-> "original"]
       ELSE [out |-> Return(None), invoked |-> "none"]

\* BaseMatchingSpyOperation.handle_call
MatchingHandleCall(sig, op, next, last_call, args, kwargs) ==
  LET found == GetCallMatchConfig(sig, op, next, last_call)
  IN IF found.index = 0
     THEN Handled(Raise(found.exc), found.next, 0, "none")
     ELSE LET config == op.calls[found.index]
          IN IF ~ValidateCall(sig, last_call, config)
             THEN Handled(Raise(NotCalledWithError(sig, last_call, config)),
                          found.next, found.index, "none")
             ELSE LET applied == ApplyConfig(sig, config, last_call, args, kwargs)
                  IN Handled(applied.out, found.next, found.index, applied.invoked)

\* The fake function BaseSpyOperation.setup returns for the spy, then
\* _on_spy_call: the receiver is dropped for bound methods, the sanity
\* assertion is made on the spy's last call, and handle_call is run.
OnSpyCall(sig, op, next, last_call, args, kwargs) ==
  LET a == IF sig.func_type = TYPE_BOUND_METHOD THEN Rest(args) ELSE args
  IN IF ~OnSpyCallCheck(sig, last_call, a, kwargs)
     THEN Handled(Raise(PlainExc("AssertionError")), next, 0, "none")
     ELSE IF op.type \in {"MatchAny", "MatchInOrder"}
     THEN MatchingHandleCall(sig, op, next, last_call, a, kwargs)
     ELSE Handled(LeafHandleCall(op), next, 0, "op")

\* ------------------------------------------------------------ FunctionSpy
\* The signature of the fake function an operation's setup() returns:
\* (_self, *args, **kwargs) for bound methods, (*args, **kwargs) otherwise.
OpFakeSig(sig) ==
  [func_name |-> "fake_func", func_type |-> TYPE_FUNCTION,
   all_arg_names |-> IF sig.func_type = TYPE_BOUND_METHOD THEN <<"_self">> ELSE <<>>,
   arg_names |-> IF sig.func_type = TYPE_BOUND_METHOD THEN <<"_self">> ELSE <<>>,
   kwarg_names |-> <<>>, args_param_name |-> TRUE, kwargs_param_name |-> TRUE]

\* is_compatible_with without its test that *args and **kwargs of the
\* function are accepted by the other one.
IsCompatibleWithAnyVarargs(self, other_sig) ==
  LET source_args_name == self.args_param_name
      compat_args_name == other_sig.args_param_name
      compat_kwargs_name == other_sig.kwargs_param_name
      method == self.func_type \in {TYPE_BOUND_METHOD, TYPE_UNBOUND_METHOD}
      source_args == IF method THEN Rest(self.arg_names) ELSE self.arg_names
      compat_args == IF method THEN Rest(other_sig.arg_names) ELSE other_sig.arg_names
      compat_all_args == SeqToSet(other_sig.all_arg_names)
      compat_kwargs == SeqToSet(other_sig.kwarg_names)
  IN IF compat_args_name /\ compat_kwargs_name THEN TRUE
     ELSE IF /\ Len(source_args) # Len(compat_args)
             /\ \/ /\ Len(source_args) < Len(compat_args)
                   /\ ~source_args_name
                   /\ ~(SeqToSet(source_args) \subseteq compat_kwargs)
                \/ /\ Len(source_args) > Len(compat_args)
                   /\ ~compat_args_name
     THEN FALSE
     ELSE IF /\ ~(SeqToSet(self.kwarg_names) \subseteq compat_all_args)
             /\ ~compat_kwargs_name
     THEN FALSE
     ELSE TRUE

\* is_compatible_with without its comparison of the numbers of arguments.
IsCompatibleWithAnyCount(self, other_sig) ==
  LET source_args_name == self.args_param_name
      compat_args_name == other_sig.args_param_name
      source_kwargs_name == self.kwargs_param_name
      compat_kwargs_name == other_sig.kwargs_param_name
      compat_all_args == SeqToSet(other_sig.all_arg_names)
  IN IF compat_args_name /\ compat_kwargs_name THEN TRUE
     ELSE IF \/ source_args_name /\ ~compat_args_name
             \/ source_kwargs_name /\ ~compat_kwargs_name
     THEN FALSE
     ELSE IF /\ ~(SeqToSet(self.kwarg_names) \subseteq compat_all_args)
             /\ ~compat_kwargs_name
     THEN FALSE
     ELSE TRUE

\* BaseFunctionSig.is_compatible_with
IsCompatibleWith(self, other_sig) ==
  LET source_args_name == self.args_param_name
      compat_args_name == other_sig.args_param_name
      source_kwargs_name == self.kwargs_param_name
      compat_kwargs_name == other_sig.kwargs_param_name
      method == self.func_type \in {TYPE_BOUND_METHOD, TYPE_UNBOUND_METHOD}
      source_args == IF method THEN Rest(self.arg_names) ELSE self.arg_names
      compat_args == IF method THEN Rest(other_sig.arg_names) ELSE other_sig.arg_names
      compat_all_args == SeqToSet(other_sig.all_arg_names)
      compat_kwargs == SeqToSet(other_sig.kwarg_names)
  IN IF compat_args_name /\ compat_kwargs_name THEN TRUE
     ELSE IF \/ source_args_name /\ ~compat_args_name
             \/ source_kwargs_name /\ ~compat_kwargs_name
     THEN FALSE
     ELSE IF /\ Len(source_args) # Len(compat_args)
             /\ \/ /\ Len(source_args) < Len(compat_args)
                   /\ ~source_args_name
                   /\ ~(SeqToSet(source_args) \subseteq compat_kwargs)
                \/ /\ Len(source_args) > Len(compat_args)
                   /\ ~compat_args_name
     THEN FALSE
     ELSE IF /\ ~(SeqToSet(self.kwarg_names) \subseteq compat_all_args)
             /\ ~compat_kwargs_name
     THEN FALSE
     ELSE TRUE

\* The arguments of spy_on(): call_fake, call_original and op.
SpyOnArgs(call_fake, call_original, op) ==
  [call_fake |-> call_fake, call_original |-> call_original, op |-> op]

\* FunctionSpy.__init__ without its hasattr(func, 'spy') test.
InitErrorNoExisting(f, has_spy, cfg) ==
  LET sig == FunctionSig(f)
  IN IF cfg.op.type # "none" /\ cfg.call_fake.kind # "None" THEN "ValueError"
     ELSE IF /\ cfg.op.type = "none"
             /\ cfg.call_fake.kind # "None"
             /\ ~IsCompatibleWith(sig, FunctionSig(cfg.call_fake.name))
          THEN "IncompatibleFunctionError"
     ELSE ""

\* The error FunctionSpy.__init__ raises for these arguments, "" when it
\* raises none.
InitError(f, has_spy, cfg) ==
  LET sig == FunctionSig(f)
  IN IF cfg.op.type # "none" /\ cfg.call_fake.kind # "None" THEN "ValueError"
     ELSE IF has_spy THEN "ExistingSpyError"
     ELSE IF /\ cfg.op.type = "none"
             /\ cfg.call_fake.kind # "None"
             /\ ~IsCompatibleWith(sig, FunctionSig(cfg.call_fake.name))
          THEN "IncompatibleFunctionError"
     ELSE IF /\ cfg.op.type # "none"
             /\ ~IsCompatibleWith(sig, OpFakeSig(sig))
          THEN "IncompatibleFunctionError"
     ELSE ""

\* self.func chosen with call_original looked at before call_fake.
SpyFuncOriginalFirst(f, cfg) ==
  IF cfg.op.type # "none" THEN OpFunc(SetupOp(cfg.op))
  ELSE IF cfg.call_original THEN OrigFunc(f)
  ELSE IF cfg.call_fake.kind # "None" THEN cfg.call_fake
  ELSE NoFunc

\* What FunctionSpy.__init__ sets self.func to: the fake function of the
\* operation or call_fake, else the original, else nothing.
SpyFunc(f, cfg) ==
  IF cfg.op.type # "none" THEN OpFunc(SetupOp(cfg.op))
  ELSE IF cfg.call_fake.kind # "None" THEN cfg.call_fake
  ELSE IF cfg.call_original THEN OrigFunc(f)
  ELSE NoFunc

\* No spy on the function.
NoSpy == [active |-> FALSE, func |-> NoFunc]

\* func(*args, **kwargs) in FunctionSpy.__call__
InvokeFunc(sig, func, next, last_call, args, kwargs) ==
  CASE func.kind = "orig" ->
         Handled(CallFunc(func.name, args, kwargs), next, 0, "original")
    [] func.kind = "user" ->
         Handled(CallFunc(func.name, args, kwargs), next, 0, "call_fake")
    [] func.kind = "op" ->
         OnSpyCall(sig, func.op, next, last_call, args, kwargs)

\* Recording that keeps the receiver of a method.
RecordArgsWithReceiver(sig, args) == args

\* The arguments FunctionSpy.__call__ records: the receiver is dropped for
\* bound and unbound methods.
RecordArgs(sig, args) ==
  IF sig.func_type \in {TYPE_BOUND_METHOD, TYPE_UNBOUND_METHOD}
  THEN Rest(args)
  ELSE args

\* The end of FunctionSpy.__call__: the SpyCall once the invocation has
\* returned or raised ("except Exception" stores the exception).
CompleteCall(call, out) ==
  IF out.kind = "raise"
  THEN IF IsException(out.exc) THEN [call EXCEPT !.exception = out.exc] ELSE call
  ELSE [call EXCEPT !.return_value = out.value]

\* What the caller of the spied function gets from FunctionSpy.__call__: the
\* result is returned, an exception is re-raised ("raise").
CallResult(out) == out

\* A new record put at the head of the list instead of its end.
AppendCallAtFront(calls, call) == <<call>> \o calls

\* calls.append(call) in FunctionSpy.__call__
AppendCall(calls, call) == Append(calls, call)

\* ------------------------------------------------------- inputs of the model
Kw(a, b, x) == [k \in KwNames |-> CASE k = "a" -> a [] k = "b" -> b [] k = "x" -> x]

Targets == {"do_math", "do_math_mixed", "do_math_pos"}

\* The call sites of the code under test: the positional and the keyword
\* arguments as written at each.
Site(pos, kw) == [pos |-> pos, kw |-> kw]

CallSites ==
  {Site(<<>>, NoKwargs),
   Site(<<2, 1>>, NoKwargs),
   Site(<<>>, Kw(1, 2, Absent)),
   Site(<<2>>, Kw(Absent, 1, Absent)),
   Site(<<>>, Kw(2, Absent, Absent)),
   Site(<<1, 2, 2>>, NoKwargs),
   Site(<<1, 2>>, Kw(Absent, Absent, 1)),
   Site(<<1>>, Kw(1, Absent, Absent))}

\* The exception instances the tests raise.
UserExcs == {PlainExc("ValueError"), PlainExc("KeyboardInterrupt")}

LeafOps == {SpyOpReturn(123)} \cup {SpyOpRaise(e) : e \in UserExcs}

\* What a call match configuration may say about its outcome: every
\* combination of 'op', 'call_fake' and 'call_original'.
ConfigOutcomes ==
  {<<has_op, call_fake, call_original>> :
      has_op \in BOOLEAN,
      call_fake \in {NoFunc, UserFunc("lambda_ab")},
      call_original \in BOOLEAN}

ExpectWith(args, kwargs, o) ==
  Expect(args, kwargs, o[1], IF o[1] THEN SpyOpReturn(123) ELSE NoOp, o[2], o[3])

Default == <<FALSE, NoFunc, TRUE>>
WithOp == <<TRUE, NoFunc, TRUE>>
WithFake == <<FALSE, UserFunc("lambda_ab"), TRUE>>
Disabled == <<FALSE, NoFunc, FALSE>>

\* The lists of call match configurations given to the matching operations.
ExpectLists ==
  {<<>>}
  \cup {<<ExpectWith(<<>>, Kw(2, Absent, Absent), o)>> : o \in ConfigOutcomes}
  \cup {<<ExpectWith(<<>>, NoKwargs, Default)>>,
        <<ExpectWith(<<2>>, NoKwargs, Default)>>}
  \cup {<<ExpectWith(<<>>, Kw(2, Absent, Absent), WithOp),
          ExpectWith(<<>>, Kw(2, 1, Absent), Default)>>,
        <<ExpectWith(<<>>, Kw(2, 1, Absent), Default),
          ExpectWith(<<>>, Kw(2, Absent, Absent), WithFake)>>,
        <<ExpectWith(<<2>>, NoKwargs, Default),
          Expect(<<>>, NoKwargs, TRUE, SpyOpRaise(PlainExc("ValueError")), NoFunc, TRUE)>>,
        <<ExpectWith(<<>>, NoKwargs, Disabled),
          ExpectWith(<<>>, Kw(2, Absent, Absent), WithOp)>>}

MatchingOps ==
  {SpyOpMatchAny(l) : l \in ExpectLists} \cup {SpyOpMatchInOrder(l) : l \in ExpectLists}

\* spy_on() called with call_fake.
FakeConfigs ==
  {SpyOnArgs(UserFunc(f), TRUE, NoOp) :
     f \in {"fake_do_math", "fake_raise", "fake_interrupt", "lambda_ab"}}
  \cup {SpyOnArgs(UserFunc("fake_do_math"), FALSE, NoOp)}

\* spy_on() called with both op and call_fake.
BothConfigs == {SpyOnArgs(UserFunc("fake_do_math"), TRUE, SpyOpReturn(123))}

\* The arguments spy_on() is called with: without an operation ...
BasicConfigs ==
  {SpyOnArgs(NoFunc, co, NoOp) : co \in BOOLEAN}
  \cup FakeConfigs
  \cup {SpyOnArgs(NoFunc, TRUE, o) : o \in LeafOps}
  \cup {SpyOnArgs(NoFunc, FALSE, SpyOpReturn(123))}
  \cup BothConfigs

\* ... and with a matching operation.
MatchingConfigs == {SpyOnArgs(NoFunc, TRUE, o) : o \in MatchingOps}

\* The lists given to SpyOpReturnInOrder and SpyOpRaiseInOrder.
ReturnLists == {<<11>>, <<11, 12>>}
RaiseLists == {<<PlainExc("ValueError")>>, <<PlainExc("ValueError"), PlainExc("KeyError")>>}

InOrderConfigs ==
  {SpyOnArgs(NoFunc, TRUE, SpyOpReturnInOrder(l)) : l \in ReturnLists}
  \cup {SpyOnArgs(NoFunc, TRUE, SpyOpRaiseInOrder(l)) : l \in RaiseLists}

SpyConfigs == BasicConfigs \cup MatchingConfigs \cup InOrderConfigs

\* An operation whose expectations all are a bare 'op': what
\* SpyOpReturnInOrder and SpyOpRaiseInOrder build.
OnlyOps(op) ==
  /\ op.calls # <<>>
  /\ \A i \in 1..Len(op.calls) : op.calls[i].has_op /\ op.calls[i].args = <<>>

\* The tests put the matching operations on the method do_math, and
\* SpyOpReturnInOrder and SpyOpRaiseInOrder on a function of two arguments.
Tested(t, cfg) ==
  cfg.op.type \in {"MatchAny", "MatchInOrder"} =>
    IF cfg.op.type = "MatchInOrder" /\ OnlyOps(cfg.op)
    THEN t = "do_math_pos"
    ELSE t = "do_math"

\* ------------------------------------------------------------------ state
VARIABLES
  scope,      \* the functions the test works with
  spies,      \* SpyAgency.spies: the functions whose spy is registered
  spy,        \* per function: its spy attribute (NoSpy when it has none)
  calls,      \* per function: its calls attribute, a list of SpyCall
  called,     \* per function: its called attribute
  last_call,  \* per function: its last_call attribute (<<>> for None)
  next,       \* per function: _next of the SpyOpMatchInOrder of its spy
  total,      \* per function: calls its spy intercepted since spy_on()
  since,      \* per function: calls intercepted since spy_on()/reset_calls()
  last,       \* the last operation: its inputs, what it invoked and returned
  given,      \* per function: the arguments its spy was created with
  probe,      \* what the test builds by hand: a called_with() or is_compatible_with()
              \* query, or an operation instance it passes to several spy_on()
  lost,       \* SpyAgency.spies: the functions with a spy that was released
              \* with unregister=False and is still in the set
  released    \* per function: the number of calls its spy had recorded when
              \* it was released, None when it had no spy since or has one

vars == <<scope, spies, spy, calls, called, last_call, next, total, since, last,
          given, probe, lost, released>>

\* The record kept of the last operation. intercepted: the call reached
\* FunctionSpy.__call__; impl: what the invoked implementation did; ret:
\* what the caller got; cursor: _next before the call.
Last(op, target, pos, kw, intercepted, impl, ret, cursor, matched, invoked) ==
  [op |-> op, target |-> target, pos |-> pos, kw |-> kw,
   intercepted |-> intercepted, impl |-> impl, ret |-> ret,
   cursor |-> cursor, matched |-> matched, invoked |-> invoked]

\* A called_with(*args, **kwargs) query on the SpyCall call of a spy on t.
Probe(asked, t, call, args, kwargs, result) ==
  [asked |-> asked, t |-> t, call |-> call, args |-> args, kwargs |-> kwargs,
   result |-> result]

NoProbe == Probe(FALSE, "", SpyCall(<<>>, NoKwargs), <<>>, NoKwargs, FALSE)

\* spy_on() was not called.
NoArgs == SpyOnArgs(NoFunc, TRUE, NoOp)

\* The state of the spies before any spy_on().
NoSpies ==
  /\ spies = {}
  /\ spy = [t \in Targets |-> NoSpy]
  /\ calls = [t \in Targets |-> <<>>]
  /\ called = [t \in Targets |-> FALSE]
  /\ last_call = [t \in Targets |-> <<>>]
  /\ next = [t \in Targets |-> 0]
  /\ total = [t \in Targets |-> 0]
  /\ since = [t \in Targets |-> 0]
  /\ given = [t \in Targets |-> NoArgs]
  /\ lost = {}
  /\ released = [t \in Targets |-> None]
  /\ last = Last("init", "", <<>>, NoKwargs, FALSE, Return(None), Return(None), 0, 0, "none")

Init ==
  /\ \E t \in Targets : scope = {t}
  /\ NoSpies
  /\ probe = NoProbe

\* The positional arguments the interpreter passes for a call written with
\* pos: a bound method gets its instance first.
FullPos(t, pos) ==
  IF Func(t).type = TYPE_BOUND_METHOD THEN <<Obj>> \o pos ELSE pos

\* spy_on() that puts the spy in the set before the constructor has
\* validated its arguments.
SpyOnRegistersFirst(t, cfg) ==
  LET err == InitError(t, spy[t].active, cfg)
  IN /\ t \in scope
     /\ Tested(t, cfg)
     /\ spies' = spies \cup {t}
     /\ IF err # ""
        THEN /\ last' = Last("spy_on", t, <<>>, NoKwargs, FALSE, Return(None),
                             Raise(PlainExc(err)), 0, 0, "none")
             /\ UNCHANGED <<spy, calls, called, last_call, next, total, since, given,
                             lost, released>>
        ELSE /\ spy' = [spy EXCEPT ![t] = [active |-> TRUE, func |-> SpyFunc(t, cfg)]]
             /\ calls' = [calls EXCEPT ![t] = <<>>]
             /\ called' = [called EXCEPT ![t] = FALSE]
             /\ last_call' = [last_call EXCEPT ![t] = <<>>]
             /\ next' = [next EXCEPT ![t] = 0]
             /\ total' = [total EXCEPT ![t] = 0]
             /\ since' = [since EXCEPT ![t] = 0]
             /\ given' = [given EXCEPT ![t] = cfg]
             /\ released' = [released EXCEPT ![t] = None]
             /\ UNCHANGED lost
             /\ last' = Last("spy_on", t, <<>>, NoKwargs, FALSE, Return(None),
                             Return(None), 0, 0, "none")
     /\ UNCHANGED <<scope, probe>>

\* SpyAgency.spy_on(t, call_fake=..., call_original=..., op=...)
SpyOn(t, cfg) ==
  LET err == InitError(t, spy[t].active, cfg)
  IN /\ t \in scope
     /\ Tested(t, cfg)
     /\ IF err # ""
        THEN /\ last' = Last("spy_on", t, <<>>, NoKwargs, FALSE, Return(None),
                             Raise(PlainExc(err)), 0, 0, "none")
             /\ UNCHANGED <<spies, spy, calls, called, last_call, next, total, since, given,
                          lost, released>>
        ELSE /\ spy' = [spy EXCEPT ![t] = [active |-> TRUE, func |-> SpyFunc(t, cfg)]]
             /\ calls' = [calls EXCEPT ![t] = <<>>]
             /\ called' = [called EXCEPT ![t] = FALSE]
             /\ last_call' = [last_call EXCEPT ![t] = <<>>]
             /\ next' = [next EXCEPT ![t] = 0]
             /\ total' = [total EXCEPT ![t] = 0]
             /\ since' = [since EXCEPT ![t] = 0]
             /\ spies' = spies \cup {t}
             /\ given' = [given EXCEPT ![t] = cfg]
             /\ released' = [released EXCEPT ![t] = None]
             /\ UNCHANGED lost
             /\ last' = Last("spy_on", t, <<>>, NoKwargs, FALSE, Return(None),
                             Return(None), 0, 0, "none")
     /\ UNCHANGED <<scope, probe>>

\* A call t(*pos, **kw) made by the code under test.
Call(t, pos, kw) ==
  LET sig == FunctionSig(t)
      b == PyBind(Func(t).params, FullPos(t, pos), kw)
      args == ForwardArgs(sig, b)
      kwargs == ForwardKwargs(sig, b)
      call == SpyCall(RecordArgs(sig, args), kwargs)
      func == spy[t].func
      h == IF func.kind = "None"
           THEN Handled(Return(None), next[t], 0, "none")
           ELSE InvokeFunc(sig, func, next[t], call, args, kwargs)
      done == CompleteCall(call, h.out)
  IN /\ t \in scope
     /\ IF ~spy[t].active
        THEN \* not spied on: the function runs as written
             /\ last' = Last("call", t, pos, kw, FALSE,
                             CallFunc(t, FullPos(t, pos), kw),
                             CallFunc(t, FullPos(t, pos), kw), 0, 0, "original")
             /\ UNCHANGED <<spies, spy, calls, called, last_call, next, total, since, given,
                          lost, released>>
        ELSE IF ~b.ok
        THEN \* the generated proxy raises TypeError before it reaches the spy
             /\ last' = Last("call", t, pos, kw, FALSE, Return(None),
                             Raise(PlainExc("TypeError")), next[t], 0, "none")
             /\ UNCHANGED <<spies, spy, calls, called, last_call, next, total, since, given,
                          lost, released>>
        ELSE /\ total[t] < MaxCalls
             /\ calls' = [calls EXCEPT ![t] = AppendCall(calls[t], done)]
             /\ called' = [called EXCEPT ![t] = TRUE]
             /\ last_call' = [last_call EXCEPT ![t] = <<done>>]
             /\ next' = [next EXCEPT ![t] = h.next]
             /\ total' = [total EXCEPT ![t] = total[t] + 1]
             /\ since' = [since EXCEPT ![t] = since[t] + 1]
             /\ last' = Last("call", t, pos, kw, TRUE, h.out, CallResult(h.out),
                             next[t], h.matched, h.invoked)
             /\ UNCHANGED <<spies, spy, given, lost, released>>
     /\ UNCHANGED <<scope, probe>>

\* reset_calls() that empties the list but leaves called and last_call.
ResetCallsListOnly(t) ==
  /\ t \in scope
  /\ spy[t].active
  /\ calls' = [calls EXCEPT ![t] = <<>>]
  /\ since' = [since EXCEPT ![t] = 0]
  /\ last' = Last("reset_calls", t, <<>>, NoKwargs, FALSE, Return(None),
                  Return(None), next[t], 0, "none")
  /\ UNCHANGED <<scope, spies, spy, called, last_call, next, total, given, probe,
                 lost, released>>

\* reset_calls() that also puts the operation of the spy back at its start.
ResetCallsAndOperation(t) ==
  /\ t \in scope
  /\ spy[t].active
  /\ calls' = [calls EXCEPT ![t] = <<>>]
  /\ called' = [called EXCEPT ![t] = FALSE]
  /\ last_call' = [last_call EXCEPT ![t] = <<>>]
  /\ since' = [since EXCEPT ![t] = 0]
  /\ next' = [next EXCEPT ![t] = 0]
  /\ last' = Last("reset_calls", t, <<>>, NoKwargs, FALSE, Return(None),
                  Return(None), next[t], 0, "none")
  /\ UNCHANGED <<scope, spies, spy, total, given, probe, lost, released>>

\* t.reset_calls()
ResetCalls(t) ==
  /\ t \in scope
  /\ spy[t].active
  /\ calls' = [calls EXCEPT ![t] = <<>>]
  /\ called' = [called EXCEPT ![t] = FALSE]
  /\ last_call' = [last_call EXCEPT ![t] = <<>>]
  /\ since' = [since EXCEPT ![t] = 0]
  /\ last' = Last("reset_calls", t, <<>>, NoKwargs, FALSE, Return(None),
                  Return(None), next[t], 0, "none")
  /\ UNCHANGED <<scope, spies, spy, next, total, given, probe, lost, released>>

\* FunctionSpy.unspy that does not put the function's code back: the
\* function stays hooked.
FunctionSpyUnspyKeepsCode(t, unregister) ==
  /\ spy' = spy
  /\ calls' = [calls EXCEPT ![t] = <<>>]
  /\ called' = [called EXCEPT ![t] = FALSE]
  /\ last_call' = [last_call EXCEPT ![t] = <<>>]
  /\ next' = [next EXCEPT ![t] = 0]
  /\ total' = [total EXCEPT ![t] = 0]
  /\ since' = [since EXCEPT ![t] = 0]
  /\ given' = given
  /\ released' = [released EXCEPT ![t] = Len(calls[t])]
  /\ spies' = spies \ {t}
  /\ lost' = IF unregister THEN lost ELSE lost \cup {t}

\* FunctionSpy.unspy that leaves the calls, called and last_call attributes
\* on the function, and its spy attribute to read them through.
FunctionSpyUnspyKeepsCalls(t, unregister) ==
  /\ spy' = spy
  /\ released' = [released EXCEPT ![t] = Len(calls[t])]
  /\ spies' = spies \ {t}
  /\ lost' = IF unregister THEN lost ELSE lost \cup {t}
  /\ UNCHANGED <<calls, called, last_call, next, total, since, given>>

\* FunctionSpy.unspy(unregister): the function loses its spy attribute, its
\* calls, called and last_call attributes and gets its code back; the spy
\* leaves SpyAgency.spies if unregister.
FunctionSpyUnspy(t, unregister) ==
  /\ spy' = [spy EXCEPT ![t] = NoSpy]
  /\ calls' = [calls EXCEPT ![t] = <<>>]
  /\ called' = [called EXCEPT ![t] = FALSE]
  /\ last_call' = [last_call EXCEPT ![t] = <<>>]
  /\ next' = [next EXCEPT ![t] = 0]
  /\ total' = [total EXCEPT ![t] = 0]
  /\ since' = [since EXCEPT ![t] = 0]
  /\ given' = [given EXCEPT ![t] = NoArgs]
  /\ released' = [released EXCEPT ![t] = Len(calls[t])]
  /\ spies' = spies \ {t}
  /\ lost' = IF unregister THEN lost ELSE lost \cup {t}

\* SpyAgency.unspy that returns quietly when the function has no spy.
UnspyQuiet(t) ==
  /\ t \in scope
  /\ IF ~spy[t].active
     THEN /\ last' = Last("unspy", t, <<>>, NoKwargs, FALSE, Return(None),
                          Return(None), 0, 0, "none")
          /\ UNCHANGED <<spies, spy, calls, called, last_call, next, total, since, given,
                          lost, released>>
     ELSE /\ FunctionSpyUnspy(t, TRUE)
          /\ last' = Last("unspy", t, <<>>, NoKwargs, FALSE, Return(None),
                          Return(None), 0, 0, "none")
  /\ UNCHANGED <<scope, probe>>

\* SpyAgency.unspy(t), which runs FunctionSpy.unspy()
Unspy(t) ==
  /\ t \in scope
  /\ IF ~spy[t].active
     THEN /\ last' = Last("unspy", t, <<>>, NoKwargs, FALSE, Return(None),
                          Raise(PlainExc("ValueError")), 0, 0, "none")
          /\ UNCHANGED <<spies, spy, calls, called, last_call, next, total, since, given,
                          lost, released>>
     ELSE /\ FunctionSpyUnspy(t, TRUE)
          /\ last' = Last("unspy", t, <<>>, NoKwargs, FALSE, Return(None),
                          Return(None), 0, 0, "none")
  /\ UNCHANGED <<scope, probe>>

\* call_original made as a call of the spied function: the call is
\* recorded as FunctionSpy.__call__ records it.
CallOriginalOfRecorded(t, pos, kw) ==
  LET out == CallOriginal(FunctionSig(t), pos, kw)
      done == CompleteCall(SpyCall(pos, kw), out)
  IN /\ t \in scope
     /\ spy[t].active
     /\ last' = Last("call_original", t, pos, kw, FALSE, out, out, next[t], 0, "original")
     /\ calls' = [calls EXCEPT ![t] = Append(@, done)]
     /\ called' = [called EXCEPT ![t] = TRUE]
     /\ last_call' = [last_call EXCEPT ![t] = <<done>>]
     /\ UNCHANGED <<scope, spies, spy, next, total, since, given, probe, lost, released>>

\* t.call_original(*pos, **kw)
CallOriginalOf(t, pos, kw) ==
  LET out == CallOriginal(FunctionSig(t), pos, kw)
  IN /\ t \in scope
     /\ spy[t].active
     /\ last' = Last("call_original", t, pos, kw, FALSE, out, out, next[t], 0, "original")
     /\ UNCHANGED <<scope, spies, spy, calls, called, last_call, next, total, since,
                    given, probe, lost, released>>

Next ==
  \/ \E t \in Targets, cfg \in SpyConfigs : SpyOn(t, cfg)
  \/ \E t \in Targets, site \in CallSites : Call(t, site.pos, site.kw)
  \/ \E t \in Targets : ResetCalls(t)
  \/ \E t \in Targets : Unspy(t)

Spec == Init /\ [][Next]_vars

\* ------------------------------------------------ calls of the original
\* A spy of each dispatch mode (the original, a call_fake, no call, an
\* operation), the calls made through it and the calls of call_original.
OriginalConfigs ==
  {SpyOnArgs(NoFunc, TRUE, NoOp),
   SpyOnArgs(UserFunc("fake_do_math"), TRUE, NoOp),
   SpyOnArgs(UserFunc("lambda_ab"), TRUE, NoOp),
   SpyOnArgs(NoFunc, FALSE, NoOp),
   SpyOnArgs(NoFunc, TRUE, SpyOpReturn(123)),
   SpyOnArgs(NoFunc, TRUE, SpyOpRaise(PlainExc("ValueError")))}

OriginalSites ==
  {Site(<<2, 1>>, NoKwargs), Site(<<2>>, Kw(Absent, 1, Absent)), Site(<<>>, NoKwargs)}

OriginalNext ==
  \/ \E t \in Targets, cfg \in OriginalConfigs : SpyOn(t, cfg)
  \/ \E t \in Targets, site \in OriginalSites : Call(t, site.pos, site.kw)
  \/ \E t \in Targets, site \in OriginalSites : CallOriginalOf(t, site.pos, site.kw)
  \/ \E t \in Targets : ResetCalls(t)
  \/ \E t \in Targets : Unspy(t)

OriginalSpec == Init /\ [][OriginalNext]_vars

\* ---------------------------------------------------------------- queries
\* SpyCall.returned
SpyCallReturned(call, value) == call.return_value = value

\* SpyCall.raised: exception_cls is the name of a class or "None".
SpyCallRaised(call, exception_cls) ==
  \/ call.exception = NoExc /\ exception_cls = "None"
  \/ call.exception.cls = exception_cls

\* The calls, called and last_call properties of FunctionSpy: the attributes
\* of the function, or [], False and None when it has none (after unspy()).
FunctionSpyCalls(t) == IF spy[t].active THEN calls[t] ELSE <<>>
FunctionSpyCalled(t) == IF spy[t].active THEN called[t] ELSE FALSE
FunctionSpyLastCall(t) == IF spy[t].active THEN last_call[t] ELSE <<>>

\* FunctionSpy.called_with and last_called_with
FunctionSpyCalledWith(t, args, kwargs) ==
  \E i \in 1..Len(FunctionSpyCalls(t)) :
    CalledWith(FunctionSig(t), FunctionSpyCalls(t)[i], args, kwargs)

FunctionSpyLastCalledWith(t, args, kwargs) ==
  /\ FunctionSpyLastCall(t) # <<>>
  /\ CalledWith(FunctionSig(t), FunctionSpyLastCall(t)[1], args, kwargs)

\* FunctionSpy.returned and last_returned
FunctionSpyReturned(t, value) ==
  \E i \in 1..Len(FunctionSpyCalls(t)) : SpyCallReturned(FunctionSpyCalls(t)[i], value)

FunctionSpyLastReturned(t, value) ==
  FunctionSpyLastCall(t) # <<>> /\ SpyCallReturned(FunctionSpyLastCall(t)[1], value)

\* FunctionSpy.raised and last_raised
FunctionSpyRaised(t, exception_cls) ==
  \E i \in 1..Len(FunctionSpyCalls(t)) :
    SpyCallRaised(FunctionSpyCalls(t)[i], exception_cls)

FunctionSpyLastRaised(t, exception_cls) ==
  FunctionSpyLastCall(t) # <<>> /\ SpyCallRaised(FunctionSpyLastCall(t)[1], exception_cls)

\* ------------------------------------------------- an agency of several spies
\* The functions the agency spies on together, the arguments its spy_on() is
\* given and the call made of them.
AgencyTargets == {"do_math", "do_math_pos"}
AgencyConfigs ==
  {SpyOnArgs(NoFunc, TRUE, NoOp), SpyOnArgs(UserFunc("lambda_ab"), TRUE, NoOp)}
AgencySites == {Site(<<2, 1>>, Kw(Absent, Absent, Absent))}

AgencyInit ==
  /\ scope = AgencyTargets
  /\ NoSpies
  /\ probe = NoProbe

\* FunctionSpy.unspy(unregister=False) of the spies of the functions in P,
\* one after the other: each function loses its spy and its attributes, and
\* SpyAgency.spies is left alone.
ReleaseRegistered(P) ==
  /\ spy' = [t \in Targets |-> IF t \in P THEN NoSpy ELSE spy[t]]
  /\ calls' = [t \in Targets |-> IF t \in P THEN <<>> ELSE calls[t]]
  /\ called' = [t \in Targets |-> IF t \in P THEN FALSE ELSE called[t]]
  /\ last_call' = [t \in Targets |-> IF t \in P THEN <<>> ELSE last_call[t]]
  /\ next' = [t \in Targets |-> IF t \in P THEN 0 ELSE next[t]]
  /\ total' = [t \in Targets |-> IF t \in P THEN 0 ELSE total[t]]
  /\ since' = [t \in Targets |-> IF t \in P THEN 0 ELSE since[t]]
  /\ given' = [t \in Targets |-> IF t \in P THEN NoArgs ELSE given[t]]
  /\ released' = [t \in Targets |-> IF t \in P THEN Len(calls[t]) ELSE released[t]]

\* t.unspy(unregister): FunctionSpy.unspy called on the spy of t, or on the
\* spy of t released last, whose first assertion then fails.
SpyUnspy(t, unregister) ==
  /\ t \in scope
  /\ spy[t].active \/ released[t] # None
  /\ IF spy[t].active
     THEN /\ FunctionSpyUnspy(t, unregister)
          /\ last' = Last("spy.unspy", t, <<>>, NoKwargs, FALSE, Return(None),
                          Return(None), 0, 0, "none")
     ELSE /\ last' = Last("spy.unspy", t, <<>>, NoKwargs, FALSE, Return(None),
                          Raise(PlainExc("AssertionError")), 0, 0, "none")
          /\ UNCHANGED <<spies, spy, calls, called, last_call, next, total, since, given,
                          lost, released>>
  /\ UNCHANGED <<scope, probe>>

\* SpyAgency.unspy_all(): the loop over self.spies, a set, takes the spies in
\* any order. A spy that was released fails its unspy(): the assertion
\* fails, or the removal from _spy_map when its function has a newer spy;
\* the loop ends there, after the spies of P, which stay in the set as
\* released spies, and the set is not cleared.
UnspyAll ==
  /\ IF lost = {}
     THEN /\ ReleaseRegistered(spies)
          /\ spies' = {} /\ lost' = {}
          /\ last' = Last("unspy_all", "", <<>>, NoKwargs, FALSE, Return(None),
                          Return(None), 0, 0, "none")
     ELSE \E P \in SUBSET spies, f \in lost :
            /\ ReleaseRegistered(P)
            /\ spies' = spies \ P
            /\ lost' = lost \cup P
            /\ last' = Last("unspy_all", "", <<>>, NoKwargs, FALSE, Return(None),
                            Raise(PlainExc(IF f \in spies \ P THEN "KeyError"
                                           ELSE "AssertionError")),
                            0, 0, "none")
  /\ UNCHANGED <<scope, probe>>

\* The assertions of SpyAgency, made on a function (not on its spy object)
\* with the expected values of AssertExpected. Each gives None, or raises
\* the AssertionError of _kgb_assert_fail, whose message starts with the
\* name of the function, or the AttributeError of a function that has no
\* called_with, returned, raised or raised_with_message attribute.
AssertHelpers ==
  {"assertHasSpy", "assertSpyCalled", "assertSpyNotCalled", "assertSpyCallCount",
   "assertSpyCalledWith", "assertSpyNotCalledWith", "assertSpyLastCalledWith",
   "assertSpyReturned", "assertSpyLastReturned", "assertSpyRaised",
   "assertSpyLastRaised", "assertSpyRaisedMessage", "assertSpyLastRaisedMessage"}

AssertExpected ==
  [count |-> 1, args |-> <<2, 1>>, kwargs |-> NoKwargs, return_value |-> 3,
   exception_cls |-> "TypeError", message |-> PlainExc("TypeError")]

\* _kgb_assert_fail('%s ...' % self._format_spy_or_call(spy))
KgbAssertFail(t) == Raise(Exc("AssertionError", t, 0, 0, <<>>, NoKwargs, <<>>, NoKwargs))

\* getattr of an attribute that a function without a spy does not have.
NoAttribute == Raise(PlainExc("AttributeError"))

\* SpyCall.raised_with_message, FunctionSpy.raised_with_message and
\* last_raised_with_message: the message is that of the expected exception.
SpyCallRaisedWithMessage(call, exception_cls, message) ==
  /\ call.exception # NoExc
  /\ SpyCallRaised(call, exception_cls)
  /\ call.exception = message

FunctionSpyRaisedWithMessage(t, exception_cls, message) ==
  \E i \in 1..Len(FunctionSpyCalls(t)) :
    SpyCallRaisedWithMessage(FunctionSpyCalls(t)[i], exception_cls, message)

FunctionSpyLastRaisedWithMessage(t, exception_cls, message) ==
  /\ FunctionSpyLastCall(t) # <<>>
  /\ SpyCallRaisedWithMessage(FunctionSpyLastCall(t)[1], exception_cls, message)

\* Fail unless ok.
AssertThat(t, ok) == IF ok THEN Return(None) ELSE KgbAssertFail(t)

AssertHasSpy(t) == AssertThat(t, spy[t].active)

AssertSpyCalled(t) ==
  IF AssertHasSpy(t).kind = "raise" THEN AssertHasSpy(t)
  ELSE AssertThat(t, called[t])

AssertSpyNotCalled(t) ==
  IF AssertHasSpy(t).kind = "raise" THEN AssertHasSpy(t)
  ELSE AssertThat(t, ~called[t])

AssertSpyCallCount(t, count) ==
  IF AssertHasSpy(t).kind = "raise" THEN AssertHasSpy(t)
  ELSE AssertThat(t, Len(calls[t]) = count)

\* A function is no FunctionSpy: assertSpyCalled is passed over, and the
\* query is looked up on the function.
AssertSpyCalledWith(t, args, kwargs) ==
  IF ~spy[t].active THEN NoAttribute
  ELSE AssertThat(t, FunctionSpyCalledWith(t, args, kwargs))

AssertSpyNotCalledWith(t, args, kwargs) ==
  IF ~spy[t].active THEN NoAttribute
  ELSE AssertThat(t, ~FunctionSpyCalledWith(t, args, kwargs))

AssertSpyLastCalledWith(t, args, kwargs) ==
  IF AssertSpyCalled(t).kind = "raise" THEN AssertSpyCalled(t)
  ELSE AssertThat(t, FunctionSpyLastCalledWith(t, args, kwargs))

AssertSpyReturned(t, return_value) ==
  IF ~spy[t].active THEN NoAttribute
  ELSE AssertThat(t, FunctionSpyReturned(t, return_value))

AssertSpyLastReturned(t, return_value) ==
  IF AssertSpyCalled(t).kind = "raise" THEN AssertSpyCalled(t)
  ELSE AssertThat(t, FunctionSpyLastReturned(t, return_value))

AssertSpyRaised(t, exception_cls) ==
  IF ~spy[t].active THEN NoAttribute
  ELSE AssertThat(t, FunctionSpyRaised(t, exception_cls))

AssertSpyLastRaised(t, exception_cls) ==
  IF AssertSpyCalled(t).kind = "raise" THEN AssertSpyCalled(t)
  ELSE AssertThat(t, FunctionSpyLastRaised(t, exception_cls))

AssertSpyRaisedMessage(t, exception_cls, message) ==
  IF ~spy[t].active THEN NoAttribute
  ELSE AssertThat(t, FunctionSpyRaisedWithMessage(t, exception_cls, message))

AssertSpyLastRaisedMessage(t, exception_cls, message) ==
  IF AssertSpyCalled(t).kind = "raise" THEN AssertSpyCalled(t)
  ELSE AssertThat(t, FunctionSpyLastRaisedWithMessage(t, exception_cls, message))

AssertOutcome(helper, t) ==
  LET e == AssertExpected
  IN CASE helper = "assertHasSpy" -> AssertHasSpy(t)
       [] helper = "assertSpyCalled" -> AssertSpyCalled(t)
       [] helper = "assertSpyNotCalled" -> AssertSpyNotCalled(t)
       [] helper = "assertSpyCallCount" -> AssertSpyCallCount(t, e.count)
       [] helper = "assertSpyCalledWith" -> AssertSpyCalledWith(t, e.args, e.kwargs)
       [] helper = "assertSpyNotCalledWith" -> AssertSpyNotCalledWith(t, e.args, e.kwargs)
       [] helper = "assertSpyLastCalledWith" -> AssertSpyLastCalledWith(t, e.args, e.kwargs)
       [] helper = "assertSpyReturned" -> AssertSpyReturned(t, e.return_value)
       [] helper = "assertSpyLastReturned" -> AssertSpyLastReturned(t, e.return_value)
       [] helper = "assertSpyRaised" -> AssertSpyRaised(t, e.exception_cls)
       [] helper = "assertSpyLastRaised" -> AssertSpyLastRaised(t, e.exception_cls)
       [] helper = "assertSpyRaisedMessage" ->
            AssertSpyRaisedMessage(t, e.exception_cls, e.message)
       [] helper = "assertSpyLastRaisedMessage" ->
            AssertSpyLastRaisedMessage(t, e.exception_cls, e.message)

\* agency.<helper>(t, ...)
AgencyAssert(helper, t) ==
  /\ t \in scope
  /\ last' = Last(helper, t, <<>>, NoKwargs, FALSE, Return(None),
                  AssertOutcome(helper, t), 0, 0, "none")
  /\ UNCHANGED <<scope, spies, spy, calls, called, last_call, next, total, since,
                 given, probe, lost, released>>

AgencyNext ==
  \/ \E t \in AgencyTargets, cfg \in AgencyConfigs : SpyOn(t, cfg)
  \/ \E t \in AgencyTargets, site \in AgencySites : Call(t, site.pos, site.kw)
  \/ \E t \in AgencyTargets : Unspy(t)
  \/ \E t \in AgencyTargets, unregister \in BOOLEAN : SpyUnspy(t, unregister)
  \/ UnspyAll
  \/ \E helper \in AssertHelpers, t \in AgencyTargets : AgencyAssert(helper, t)

AgencySpec == AgencyInit /\ [][AgencyNext]_vars

\* ------------------------------------- one operation given to several spies
\* An operation instance the test creates once and passes as op= to the
\* spy_on() of several functions. spy is the spy attribute of the instance:
\* the function whose spy setup() has stored in it, "" before any setup().
SharedOperation(op, bound) == [op |-> op, spy |-> bound]

SharedTargets == {"do_math", "do_math_pos"}
SharedSites == {Site(<<2, 1>>, NoKwargs), Site(<<1, 2>>, NoKwargs)}

SharedInit ==
  /\ scope = SharedTargets
  /\ NoSpies
  /\ probe = SharedOperation(SpyOpReturn(123), "")

\* spy_on(t, op=probe.op): FunctionSpy.__init__ calls op.setup(self) once it
\* has found no spy on t, and setup() stores the new spy in the instance.
SpyOnShared(t) ==
  LET cfg == SpyOnArgs(NoFunc, TRUE, probe.op)
      err == InitError(t, spy[t].active, cfg)
  IN /\ t \in scope
     /\ IF err # ""
        THEN /\ last' = Last("spy_on", t, <<>>, NoKwargs, FALSE, Return(None),
                             Raise(PlainExc(err)), 0, 0, "none")
             /\ probe' = IF err = "IncompatibleFunctionError"
                         THEN [probe EXCEPT !.spy = t] ELSE probe
             /\ UNCHANGED <<spies, spy, calls, called, last_call, next, total, since, given,
                          lost, released>>
        ELSE /\ spy' = [spy EXCEPT ![t] = [active |-> TRUE, func |-> SpyFunc(t, cfg)]]
             /\ calls' = [calls EXCEPT ![t] = <<>>]
             /\ called' = [called EXCEPT ![t] = FALSE]
             /\ last_call' = [last_call EXCEPT ![t] = <<>>]
             /\ next' = [next EXCEPT ![t] = 0]
             /\ total' = [total EXCEPT ![t] = 0]
             /\ since' = [since EXCEPT ![t] = 0]
             /\ spies' = spies \cup {t}
             /\ given' = [given EXCEPT ![t] = cfg]
             /\ released' = [released EXCEPT ![t] = None]
             /\ probe' = [probe EXCEPT !.spy = t]
             /\ UNCHANGED lost
             /\ last' = Last("spy_on", t, <<>>, NoKwargs, FALSE, Return(None),
                             Return(None), 0, 0, "none")
     /\ UNCHANGED scope

\* The fake function of the spy on t, then _on_spy_call of the instance:
\* the last call of self.spy, the spy stored last, is the one the assertion
\* is made on; it is None when that spy recorded no call or was released.
SharedOnSpyCall(t, call, args, kwargs) ==
  LET a == IF FunctionSig(t).func_type = TYPE_BOUND_METHOD THEN Rest(args) ELSE args
      consulted == probe.spy
      spy_call == IF consulted = t THEN <<call>> ELSE FunctionSpyLastCall(consulted)
  IN IF spy_call = <<>> THEN NoAttribute
     ELSE IF ~OnSpyCallCheck(FunctionSig(consulted), spy_call[1], a, kwargs)
     THEN Raise(PlainExc("AssertionError"))
     ELSE LeafHandleCall(probe.op)

\* A call t(*pos, **kw) of a function whose spy was given the instance.
CallShared(t, pos, kw) ==
  LET sig == FunctionSig(t)
      b == PyBind(Func(t).params, FullPos(t, pos), kw)
      args == ForwardArgs(sig, b)
      kwargs == ForwardKwargs(sig, b)
      call == SpyCall(RecordArgs(sig, args), kwargs)
      out == SharedOnSpyCall(t, call, args, kwargs)
      done == CompleteCall(call, out)
  IN /\ t \in scope
     /\ spy[t].active
     /\ b.ok
     /\ total[t] < MaxCalls
     /\ calls' = [calls EXCEPT ![t] = AppendCall(calls[t], done)]
     /\ called' = [called EXCEPT ![t] = TRUE]
     /\ last_call' = [last_call EXCEPT ![t] = <<done>>]
     /\ total' = [total EXCEPT ![t] = total[t] + 1]
     /\ since' = [since EXCEPT ![t] = since[t] + 1]
     /\ last' = Last("call", t, pos, kw, TRUE, out, CallResult(out), next[t], 0, "op")
     /\ UNCHANGED <<scope, spies, spy, next, given, probe, lost, released>>

SharedNext ==
  \/ \E t \in SharedTargets : SpyOnShared(t)
  \/ \E t \in SharedTargets, site \in SharedSites : CallShared(t, site.pos, site.kw)
  \/ \E t \in SharedTargets : Unspy(t)

SharedSpec == SharedInit /\ [][SharedNext]_vars

\* ------------------------------------------- one method, several owners
\* MathClass defines do_math; MathSubclass inherits it; obj and obj2 are
\* instances of MathSubclass. A function is named
\* by the owner whose __dict__ holds it: MathClass holds the function as
\* written, another owner holds the copy _patch_owner made for its spy.
\* scope is the set of the functions that exist.
Owners == {"MathClass", "MathSubclass", "obj", "obj2"}
OwnerMethod == "do_math"
OwnerConfig == SpyOnArgs(NoFunc, TRUE, NoOp)
OwnerSite == Site(<<2, 1>>, NoKwargs)

\* Where getattr(x, 'do_math') looks: the instance, its class, the parents.
OwnerChain(x) ==
  CASE x \in {"obj", "obj2"} -> <<x, "MathSubclass", "MathClass">>
    [] x = "MathSubclass" -> <<x, "MathClass">>
    [] x = "MathClass" -> <<x>>

\* getattr(x, 'do_math') when the functions of sc exist.
Resolve(sc, x) ==
  LET chain == OwnerChain(x)
      i == CHOOSE i \in 1..Len(chain) :
             chain[i] \in sc /\ \A j \in 1..(i - 1) : chain[j] \notin sc
  IN chain[i]

\* FunctionSpy._get_owner_needs_patching: the owner is an instance, or a
\* class that has the method from an ancestor.
GetOwnerNeedsPatching(owner, func) ==
  owner \in {"obj", "obj2"} \/ func # owner

OwnerSpy(owner, func) == [active |-> TRUE, func |-> func, owner |-> owner]

OwnerInit ==
  /\ scope = {"MathClass"}
  /\ spies = {}
  /\ spy = [f \in Owners |-> NoSpy]
  /\ calls = [f \in Owners |-> <<>>]
  /\ called = [f \in Owners |-> FALSE]
  /\ last_call = [f \in Owners |-> <<>>]
  /\ next = [f \in Owners |-> 0]
  /\ total = [f \in Owners |-> 0]
  /\ since = [f \in Owners |-> 0]
  /\ given = [f \in Owners |-> NoArgs]
  /\ lost = {}
  /\ released = [f \in Owners |-> None]
  /\ last = Last("init", "", <<>>, NoKwargs, FALSE, Return(None), Return(None), 0, 0, "none")
  /\ probe = NoProbe

\* spy_on() that puts the spy on the function the owner has, without a
\* copy of the function for the owner.
SpyOnOwnerShared(owner) ==
  LET f == Resolve(scope, owner)
      err == InitError(OwnerMethod, spy[f].active, OwnerConfig)
  IN /\ IF err # ""
        THEN /\ last' = Last("spy_on", owner, <<>>, NoKwargs, FALSE, Return(None),
                             Raise(PlainExc(err)), 0, 0, "none")
             /\ UNCHANGED <<scope, spies, spy, calls, called, last_call, total, since,
                            given>>
        ELSE /\ UNCHANGED scope
             /\ spy' = [spy EXCEPT ![f] = OwnerSpy(owner, SpyFunc(OwnerMethod, OwnerConfig))]
             /\ calls' = [calls EXCEPT ![f] = <<>>]
             /\ called' = [called EXCEPT ![f] = FALSE]
             /\ last_call' = [last_call EXCEPT ![f] = <<>>]
             /\ total' = [total EXCEPT ![f] = 0]
             /\ since' = [since EXCEPT ![f] = 0]
             /\ spies' = spies \cup {f}
             /\ given' = [given EXCEPT ![f] = OwnerConfig]
             /\ last' = Last("spy_on", owner, <<>>, NoKwargs, FALSE, Return(None),
                             Return(None), 0, 0, "none")
     /\ UNCHANGED <<next, probe, lost, released>>

\* agency.spy_on(owner.do_math, owner=owner): when the owner needs patching,
\* _patch_owner gives it a copy of the function and the spy is put on the
\* copy; else the spy is put on the function itself.
SpyOnOwner(owner) ==
  LET f == Resolve(scope, owner)
      err == InitError(OwnerMethod, spy[f].active, OwnerConfig)
      g == IF GetOwnerNeedsPatching(owner, f) THEN owner ELSE f
  IN /\ IF err # ""
        THEN /\ last' = Last("spy_on", owner, <<>>, NoKwargs, FALSE, Return(None),
                             Raise(PlainExc(err)), 0, 0, "none")
             /\ UNCHANGED <<scope, spies, spy, calls, called, last_call, total, since,
                            given>>
        ELSE /\ scope' = scope \cup {g}
             /\ spy' = [spy EXCEPT ![g] = OwnerSpy(owner, SpyFunc(OwnerMethod, OwnerConfig))]
             /\ calls' = [calls EXCEPT ![g] = <<>>]
             /\ called' = [called EXCEPT ![g] = FALSE]
             /\ last_call' = [last_call EXCEPT ![g] = <<>>]
             /\ total' = [total EXCEPT ![g] = 0]
             /\ since' = [since EXCEPT ![g] = 0]
             /\ spies' = spies \cup {g}
             /\ given' = [given EXCEPT ![g] = OwnerConfig]
             /\ last' = Last("spy_on", owner, <<>>, NoKwargs, FALSE, Return(None),
                             Return(None), 0, 0, "none")
     /\ UNCHANGED <<next, probe, lost, released>>

\* x.do_math(*pos, **kw): the function x has is called, and its spy, when it
\* has one, records the call.
CallVia(x, pos, kw) ==
  LET f == Resolve(scope, x)
      sig == FunctionSig(OwnerMethod)
      b == PyBind(Func(OwnerMethod).params, <<Obj>> \o pos, kw)
      args == ForwardArgs(sig, b)
      kwargs == ForwardKwargs(sig, b)
      call == SpyCall(RecordArgs(sig, args), kwargs)
      h == InvokeFunc(sig, spy[f].func, 0, call, args, kwargs)
      done == CompleteCall(call, h.out)
  IN /\ b.ok
     /\ IF ~spy[f].active
        THEN /\ last' = Last("call", x, pos, kw, FALSE,
                             CallFunc(OwnerMethod, <<Obj>> \o pos, kw),
                             CallFunc(OwnerMethod, <<Obj>> \o pos, kw), 0, 0, "original")
             /\ UNCHANGED <<calls, called, last_call, total, since>>
        ELSE /\ total[f] < MaxCalls
             /\ calls' = [calls EXCEPT ![f] = AppendCall(calls[f], done)]
             /\ called' = [called EXCEPT ![f] = TRUE]
             /\ last_call' = [last_call EXCEPT ![f] = <<done>>]
             /\ total' = [total EXCEPT ![f] = total[f] + 1]
             /\ since' = [since EXCEPT ![f] = since[f] + 1]
             /\ last' = Last("call", x, pos, kw, TRUE, h.out, CallResult(h.out),
                             0, 0, h.invoked)
     /\ UNCHANGED <<scope, spies, spy, next, given, probe, lost, released>>

\* agency.unspy(x.do_math): the spy of the function x has is released, and
\* _set_method removes the copy _patch_owner gave its owner.
UnspyVia(x) ==
  LET f == Resolve(scope, x)
  IN /\ IF ~spy[f].active
        THEN /\ last' = Last("unspy", x, <<>>, NoKwargs, FALSE, Return(None),
                             Raise(PlainExc("ValueError")), 0, 0, "none")
             /\ UNCHANGED <<scope, spies, spy, calls, called, last_call, total, since,
                            given>>
        ELSE /\ scope' = IF f = "MathClass" THEN scope ELSE scope \ {f}
             /\ spy' = [spy EXCEPT ![f] = NoSpy]
             /\ calls' = [calls EXCEPT ![f] = <<>>]
             /\ called' = [called EXCEPT ![f] = FALSE]
             /\ last_call' = [last_call EXCEPT ![f] = <<>>]
             /\ total' = [total EXCEPT ![f] = 0]
             /\ since' = [since EXCEPT ![f] = 0]
             /\ spies' = spies \ {f}
             /\ given' = [given EXCEPT ![f] = NoArgs]
             /\ last' = Last("unspy", x, <<>>, NoKwargs, FALSE, Return(None),
                             Return(None), 0, 0, "none")
     /\ UNCHANGED <<next, probe, lost, released>>

OwnerNext ==
  \/ \E owner \in Owners : SpyOnOwner(owner)
  \/ \E x \in Owners : CallVia(x, OwnerSite.pos, OwnerSite.kw)
  \/ \E x \in Owners : UnspyVia(x)

OwnerSpec == OwnerInit /\ [][OwnerNext]_vars

\* ------------------------------------------- called_with as a pure function
\* A SpyCall with any recorded arguments, queried with any expected ones.
CalledWithInit ==
  /\ \E t \in Targets :
       /\ scope = {t}
       /\ \E call_args \in SeqsUpTo(Val, MaxPos), call_kwargs \in KwargsSets,
             args \in SeqsUpTo(Val, MaxExpectedPos), kwargs \in KwargsSets :
            probe = Probe(FALSE, t, SpyCall(call_args, call_kwargs), args, kwargs, FALSE)
  /\ NoSpies

\* probe.call.called_with(*probe.args, **probe.kwargs)
AskCalledWith ==
  /\ ~probe.asked
  /\ probe' = [probe EXCEPT !.asked = TRUE,
                            !.result = CalledWith(FunctionSig(probe.t), probe.call,
                                                  probe.args, probe.kwargs)]
  /\ UNCHANGED <<scope, spies, spy, calls, called, last_call, next, total, since, last,
               given, lost, released>>

CalledWithNext == AskCalledWith

CalledWithSpec == CalledWithInit /\ [][CalledWithNext]_vars

\* ------------------------------------------------ signature compatibility
\* is_compatible_with() asked of the signatures of two functions written for
\* the purpose: def original(a, b) and def candidate(a, b, c), where each
\* argument is left out, required, given a default or made keyword-only,
\* with or without *args and **kwargs; the original may be a method.
SourceNames == <<"a", "b">>
CandidateNames == <<"a", "b", "c">>
ParamForms == {"NONE", "REQ", "DEF", "KWO"}

\* The parameters of form in names, in the order of names.
ParamsOfForm(names, shape, form, kind, default) ==
  LET chosen == SelectSeq(names, LAMBDA n : shape[n] = form)
  IN [i \in 1..Len(chosen) |-> Param(chosen[i], kind, default)]

\* def name([self,] required..., defaulted..., [*args,] keyword-only...,
\* [**kwargs]): the order Python demands of a parameter list.
DefFunc(name, type, names, shape, varargs, varkw) ==
  [name |-> name, type |-> type, body |-> "add",
   params |->
     (IF type = TYPE_BOUND_METHOD THEN <<Param("self", "POK", Absent)>> ELSE <<>>)
     \o ParamsOfForm(names, shape, "REQ", "POK", Absent)
     \o ParamsOfForm(names, shape, "DEF", "POK", 1)
     \o (IF varargs THEN <<Param("args", "VARPOS", Absent)>> ELSE <<>>)
     \o ParamsOfForm(names, shape, "KWO", "KWO", 1)
     \o (IF varkw THEN <<Param("kwargs", "VARKW", Absent)>> ELSE <<>>)]

CompatProbe(asked, source, candidate, result) ==
  [asked |-> asked, source |-> source, candidate |-> candidate, result |-> result]

CompatInit ==
  /\ scope = {}
  /\ NoSpies
  /\ \E type \in {TYPE_FUNCTION, TYPE_BOUND_METHOD},
        source_shape \in [SeqToSet(SourceNames) -> ParamForms],
        candidate_shape \in [SeqToSet(CandidateNames) -> ParamForms],
        source_args \in BOOLEAN, source_kwargs \in BOOLEAN,
        candidate_args \in BOOLEAN, candidate_kwargs \in BOOLEAN :
       probe = CompatProbe(FALSE,
                           FunctionSigPy3(DefFunc("original", type, SourceNames,
                                                  source_shape, source_args,
                                                  source_kwargs)),
                           FunctionSigPy3(DefFunc("candidate", type, CandidateNames,
                                                  candidate_shape, candidate_args,
                                                  candidate_kwargs)),
                           FALSE)

\* probe.source.is_compatible_with(probe.candidate)
AskIsCompatibleWith ==
  /\ ~probe.asked
  /\ probe' = [probe EXCEPT !.asked = TRUE,
                            !.result = IsCompatibleWith(probe.source, probe.candidate)]
  /\ UNCHANGED <<scope, spies, spy, calls, called, last_call, next, total, since, last,
               given, lost, released>>

CompatNext == AskIsCompatibleWith

CompatSpec == CompatInit /\ [][CompatNext]_vars

\* ------------------------------------------------------------ properties
\* The last operation was a call the spy of its target intercepted.
Intercepted == last.op = "call" /\ last.intercepted

\* The SpyCall of that call, and the signature of its target.
Record == last_call[last.target][1]
TargetSig == FunctionSig(last.target)

\* The parameters of a function the caller can name, without the receiver of
\* a method: those with a default and those without.
Named(t) ==
  SelectSeq(IF Func(t).type = TYPE_FUNCTION THEN Func(t).params ELSE Rest(Func(t).params),
            LAMBDA p : p.kind = "POK")
WithDefault(t) == SelectSeq(Named(t), LAMBDA p : p.default # Absent)
WithoutDefault(t) == SelectSeq(Named(t), LAMBDA p : p.default = Absent)
NameSet(params) == {params[i].name : i \in 1..Len(params)}

\* The value a call written f(*pos, **kw) gives the i-th parameter of Named.
ValueAt(t, i, pos, kw) ==
  IF i <= Len(pos) THEN pos[i]
  ELSE IF kw[Named(t)[i].name] # Absent THEN kw[Named(t)[i].name]
  ELSE Named(t)[i].default

ValueOf(t, name, pos, kw) ==
  ValueAt(t, CHOOSE i \in 1..Len(Named(t)) : Named(t)[i].name = name, pos, kw)

\* C1: after any sequence of calls to a spied function, calls holds one
\* record per invocation made since the spy was installed or its calls were
\* reset, and each invocation appends its record after those of the earlier
\* invocations; nothing but a reset or the removal of the spy takes records
\* away.
C1_CallsInInvocationOrder ==
  [][\A t \in Targets :
       /\ Len(calls'[t]) = since'[t]
       /\ IF last'.op = "call" /\ last'.intercepted /\ last'.target = t
          THEN /\ calls'[t] = Append(calls[t], last_call'[t][1])
               /\ SubSeq(calls'[t], 1, Len(calls[t])) = calls[t]
          ELSE calls'[t] = calls[t] \/ calls'[t] = <<>>]_vars

\* Two invocations with different records, both kept in order.
C1_Witness ==
  /\ Intercepted
  /\ Len(calls[last.target]) = 2
  /\ calls[last.target][1] # calls[last.target][2]
  /\ calls[last.target][2] = Record

\* C2: for every intercepted call, when the invoked implementation raises,
\* the exception is stored on the call's record and the same exception
\* reaches the caller; when it returns, the value is stored on the record and
\* returned to the caller.
C2_OutcomeStoredAndPropagated ==
  Intercepted =>
    /\ last.ret = last.impl
    /\ IF last.impl.kind = "raise"
       THEN Record.exception = last.impl.exc
       ELSE Record.return_value = last.impl.value /\ Record.exception = NoExc

\* C3 (as amended): do_math(a=1, b=2) spied with the compatible fake_do_math
\* and called with two positional arguments returns the fake's result,
\* records one call, and that call is matched by called_with(a=.., b=..) but
\* not by called_with(.., ..): parameters with a default are recorded as
\* keyword arguments.
C3_Case ==
  /\ Intercepted
  /\ last.target = "do_math"
  /\ given["do_math"].call_fake = UserFunc("fake_do_math")
  /\ given["do_math"].op = NoOp
  /\ Len(last.pos) = 2 /\ last.kw = NoKwargs
  /\ total["do_math"] = 1

PositionalNames(t) == [i \in 1..Len(WithoutDefault(t)) |-> WithoutDefault(t)[i].name]

\* The canonical name -> value map of a record: its keyword arguments, and
\* under them the positional arguments by parameter name.
Canonical(t, call) ==
  [k \in KwNames |->
     IF call.kwargs[k] # Absent THEN call.kwargs[k]
     ELSE IF \E i \in 1..Min(Len(PositionalNames(t)), Len(call.args)) :
               PositionalNames(t)[i] = k
     THEN call.args[CHOOSE i \in 1..Len(PositionalNames(t)) : PositionalNames(t)[i] = k]
     ELSE Absent]

\* C5: called_with(E_pos, E_kw) is true iff E_pos is a prefix of the recorded
\* positional arguments and every (k, v) of E_kw has canonical[k] = v; more
\* expected positionals than recorded, or an expected key that canonical
\* lacks, gives false.
C5_CalledWithIsPrefixAndCanonical ==
  probe.asked =>
    probe.result =
      (/\ Len(probe.args) <= Len(probe.call.args)
       /\ \A i \in 1..Min(Len(probe.args), Len(probe.call.args)) :
            probe.call.args[i] = probe.args[i]
       /\ \A k \in Keys(probe.kwargs) :
            Canonical(probe.t, probe.call)[k] = probe.kwargs[k])

\* A query with expected positionals and an expected keyword that the record
\* answers from a positional argument.
C5_Witness ==
  /\ probe.asked /\ probe.result
  /\ probe.t = "do_math_pos"
  /\ probe.args # <<>>
  /\ \E k \in Keys(probe.kwargs) : probe.call.kwargs[k] = Absent

\* The last operation was a call handled by a matching operation of the
\* given type.
HandledBy(type) ==
  /\ Intercepted
  /\ spy[last.target].func.kind = "op"
  /\ spy[last.target].func.op.type = type

\* The call match configurations of that operation.
Expected == spy[last.target].func.op.calls

\* The call failed validation against its configuration / found none.
Rejected ==
  /\ last.ret.kind = "raise"
  /\ last.ret.exc.cls = "AssertionError"
  /\ last.ret.exc.spy = last.target
Unexpected == last.ret.kind = "raise" /\ last.ret.exc.cls = "UnexpectedCallError"

Matches(e) == CalledWith(TargetSig, Record, e.args, e.kwargs)

\* C6: under SpyOpMatchInOrder with N expectations, each of the first N calls
\* that matches its expectation is accepted, and a call after the N-th raises
\* UnexpectedCallError, whose message names the function, says N calls were
\* expected and shows the offending call (the N+1-th being reported as call
\* N+1).
C6_InOrderAcceptsExactlyN ==
  HandledBy("MatchInOrder") =>
    LET n == Len(Expected)
        k == total[last.target]
    IN IF k > n
       THEN /\ Unexpected
            /\ last.ret.exc.spy = last.target
            /\ last.ret.exc.expected_calls = n
            /\ last.ret.exc.call_args = Record.args
            /\ last.ret.exc.call_kwargs = Record.kwargs
            /\ k = n + 1 => last.ret.exc.num_calls = n + 1
            /\ Record.exception = last.ret.exc
       ELSE Matches(Expected[k]) => ~Unexpected /\ ~Rejected /\ last.matched = k

\* One expectation: the first call was accepted, the second is one too many.
C6_Witness ==
  /\ HandledBy("MatchInOrder")
  /\ Len(Expected) = 1
  /\ total[last.target] = 2
  /\ calls[last.target][1].exception = NoExc
  /\ Unexpected

\* The call is exactly the expected one: the same positional arguments, and
\* no bound argument beyond the expected keywords.
StrictlyEqual(e) ==
  /\ Record.args = e.args
  /\ \A k \in KwNames : Canonical(last.target, Record)[k] = e.kwargs[k]

\* C7 (as amended): SpyOpMatchInOrder accepts a call when it is consistent
\* with expectations[cursor] under called_with (the expected args a prefix of
\* the recorded ones, the expected kwargs among the bound arguments); a call
\* that is not is rejected with an AssertionError that gives the expected and
\* the actual args/kwargs.
C7_InOrderAcceptsConsistentCalls ==
  HandledBy("MatchInOrder") /\ last.cursor < Len(Expected) =>
    LET e == Expected[last.cursor + 1]
    IN IF Matches(e)
       THEN ~Rejected /\ ~Unexpected /\ last.matched = last.cursor + 1
       ELSE last.ret = Raise(Exc("AssertionError", last.target, 0, 0,
                                 e.args, e.kwargs, Record.args, Record.kwargs))

\* A call with more arguments than its expectation names, accepted.
C7_Witness ==
  /\ HandledBy("MatchInOrder")
  /\ last.cursor < Len(Expected)
  /\ ~StrictlyEqual(Expected[last.cursor + 1])
  /\ ~Rejected
  /\ last.ret.kind = "return"

\* C7 as stated: a call is accepted only when it equals expectations[cursor]
\* exactly, and is otherwise rejected with the AssertionError.
C7_InOrderAcceptsOnlyEqualCalls ==
  HandledBy("MatchInOrder") /\ last.cursor < Len(Expected) =>
    LET e == Expected[last.cursor + 1]
    IN IF StrictlyEqual(e)
       THEN ~Rejected /\ ~Unexpected
       ELSE last.ret = Raise(Exc("AssertionError", last.target, 0, 0,
                                 e.args, e.kwargs, Record.args, Record.kwargs))

\* C8 (as amended): the SpyOpMatchInOrder cursor advances on every call that
\* finds an expectation at the cursor, accepted or rejected, so the call
\* after a rejected one is checked against the following expectation; only a
\* call past the last expectation leaves the cursor where it is.
C8_CursorAdvancesOnEveryExpectedCall ==
  HandledBy("MatchInOrder") =>
    IF last.cursor < Len(Expected)
    THEN next[last.target] = last.cursor + 1 /\ last.matched = last.cursor + 1
    ELSE next[last.target] = last.cursor /\ Unexpected

\* A rejected call after which the cursor has moved on.
C8_Witness ==
  /\ HandledBy("MatchInOrder")
  /\ Rejected
  /\ next[last.target] = last.cursor + 1

\* C8 as stated: the cursor advances when the call is accepted and stays
\* when the call is rejected.
C8_CursorAdvancesOnlyOnSuccess ==
  HandledBy("MatchInOrder") =>
    next[last.target] =
      IF last.cursor < Len(Expected) /\ ~Rejected THEN last.cursor + 1 ELSE last.cursor

\* C9: SpyOpMatchAny applies the first expectation, in the order given, that
\* the call matches under called_with; when none matches the call raises
\* UnexpectedCallError naming the function.
C9_AnyAppliesFirstMatch ==
  HandledBy("MatchAny") =>
    LET matching == {i \in 1..Len(Expected) : Matches(Expected[i])}
    IN IF matching = {}
       THEN /\ last.ret = Raise(Exc("UnexpectedCallError", last.target, 0, 0,
                                    <<>>, NoKwargs, <<>>, NoKwargs))
            /\ last.matched = 0
       ELSE /\ last.matched \in matching
            /\ \A i \in matching : last.matched <= i
            /\ ~Unexpected /\ ~Rejected

\* Two expectations match the call and the first is applied.
C9_Witness ==
  /\ HandledBy("MatchAny")
  /\ Len(Expected) = 2
  /\ Matches(Expected[1]) /\ Matches(Expected[2])
  /\ last.matched = 1
  /\ last.ret = Return(123)

\* The call match configuration the call was validated against, as it was
\* given to the operation.
Selected == given[last.target].op.calls[last.matched]

\* C10: the outcome of a call validated against an expectation of a matching
\* operation is that of the nested operation if 'op' is given, else that of
\* call_fake if given, else that of the original function unless
\* call_original is False, else None with nothing invoked; call_fake and the
\* original are invoked with the arguments of the record.
C10_OutcomePrecedence ==
  /\ Intercepted
  /\ spy[last.target].func.kind = "op"
  /\ last.matched > 0
  /\ ~Rejected
  => IF Selected.has_op
     THEN /\ last.invoked = "op"
          /\ last.ret = IF Selected.op.type = "Return"
                        THEN Return(Selected.op.return_value)
                        ELSE Raise(Selected.op.exc)
     ELSE IF Selected.call_fake # NoFunc
     THEN /\ last.invoked = "call_fake"
          /\ last.ret = CallFunc(Selected.call_fake.name, Record.args, Record.kwargs)
     ELSE IF Selected.call_original
     THEN /\ last.invoked = "original"
          /\ last.ret = CallFunc(last.target, FullPos(last.target, Record.args),
                                 Record.kwargs)
     ELSE /\ last.invoked = "none"
          /\ last.ret = Return(None)

\* An expectation with 'op', call_fake and call_original all given: the
\* nested operation decides.
C10_Witness ==
  /\ Intercepted
  /\ spy[last.target].func.kind = "op"
  /\ last.matched > 0
  /\ ~Rejected
  /\ Selected.has_op /\ Selected.call_fake # NoFunc /\ Selected.call_original
  /\ last.invoked = "op"
  /\ last.ret = Return(123)

\* C11: with SpyOpReturnInOrder([v1..vN]) the i-th call returns vi and with
\* SpyOpRaiseInOrder([e1..eN]) the i-th call raises ei, for i = 1..N and
\* whatever the call's arguments; a later call raises UnexpectedCallError
\* that says N calls were expected, as under SpyOpMatchInOrder.
C11_InOrderSugar ==
  Intercepted =>
    LET op == given[last.target].op
        i == total[last.target]
        Overflow(n) ==
          /\ Unexpected
          /\ last.ret.exc.spy = last.target
          /\ last.ret.exc.expected_calls = n
          /\ last.ret.exc.call_args = Record.args
          /\ last.ret.exc.call_kwargs = Record.kwargs
    IN /\ \A vs \in ReturnLists :
            op = SpyOpReturnInOrder(vs) =>
              IF i <= Len(vs) THEN last.ret = Return(vs[i]) ELSE Overflow(Len(vs))
       /\ \A es \in RaiseLists :
            op = SpyOpRaiseInOrder(es) =>
              IF i <= Len(es) THEN last.ret = Raise(es[i]) ELSE Overflow(Len(es))

\* The second of two values returned to the second call, made with other
\* arguments than the first.
C11_Witness ==
  /\ Intercepted
  /\ given[last.target].op = SpyOpReturnInOrder(<<11, 12>>)
  /\ Len(calls[last.target]) = 2
  /\ calls[last.target][1].return_value = 11
  /\ calls[last.target][1].args # Record.args
  /\ last.ret = Return(12)

\* What the spies are: everything a spy_on() that fails must leave alone.
spyState ==
  <<spies, spy, calls, called, last_call, next, total, since, given, lost, released>>

\* A spy_on(t, ...) step was taken.
SpyOnStep(t) == last' # last /\ last'.op = "spy_on" /\ last'.target = t

\* both op and call_fake were given to spy_on(): its first test.
BothGiven(cfg) == cfg.op.type # "none" /\ cfg.call_fake.kind # "None"

\* C12 (as written): spy_on() of a function that has a spy raises
\* ExistingSpyError whatever its other arguments, and the existing spy, its
\* calls and the agency's set stay as they were.
C12_SecondSpyOnRaisesExistingSpyError ==
  [][\A t \in Targets :
       spy[t].active /\ SpyOnStep(t) =>
         /\ last'.ret = Raise(PlainExc("ExistingSpyError"))
         /\ UNCHANGED spyState]_vars

\* C12 (amended): spy_on() of a function that has a spy always fails and
\* leaves the existing spy, its calls and the agency's set as they were; it
\* raises ValueError when both op and call_fake are given, and
\* ExistingSpyError otherwise. So a function never gets a second spy.
C12_SecondSpyOnFails ==
  [][\A t \in Targets :
       spy[t].active /\ SpyOnStep(t) =>
         /\ UNCHANGED spyState
         /\ \/ /\ last'.ret = Raise(PlainExc("ValueError"))
               /\ \A cfg \in SpyConfigs : BothGiven(cfg) \/ ~SpyOn(t, cfg)
            \/ /\ last'.ret = Raise(PlainExc("ExistingSpyError"))
               /\ \A cfg \in BothConfigs : ~SpyOn(t, cfg)]_vars

\* A spy that recorded a call refused a second spy_on() with
\* ExistingSpyError and still records.
C12_Witness ==
  /\ last.op = "spy_on"
  /\ last.ret = Raise(PlainExc("ExistingSpyError"))
  /\ spy[last.target].active
  /\ Len(calls[last.target]) = 1
  /\ last.target \in spies

\* The function t takes *args or **kwargs and the function f does not: f
\* cannot stand in for t.
LacksVarargs(t, f) ==
  \/ FunctionSig(t).args_param_name /\ ~FunctionSig(f).args_param_name
  \/ FunctionSig(t).kwargs_param_name /\ ~FunctionSig(f).kwargs_param_name

IncompatibleFunctionError == Raise(PlainExc("IncompatibleFunctionError"))

\* C13: spy_on() of a function without a spy, with a call_fake that cannot
\* take the function's *args or **kwargs, raises IncompatibleFunctionError
\* there and then; whenever spy_on() raises it, the function still has no
\* spy and the agency's set is as it was, and a call made next runs the
\* original function and is not intercepted.
C13_IncompatibleFakeRejected ==
  [][\A t \in Targets :
       /\ ~spy[t].active /\ SpyOnStep(t) =>
            \A cfg \in FakeConfigs :
              LacksVarargs(t, cfg.call_fake.name) /\ SpyOn(t, cfg) =>
                last'.ret = IncompatibleFunctionError
       /\ SpyOnStep(t) /\ last'.ret = IncompatibleFunctionError =>
            ~spy[t].active /\ ~spy'[t].active /\ t \notin spies'
            /\ UNCHANGED spyState
       /\ (/\ last.op = "spy_on" /\ last.target = t
           /\ last.ret = IncompatibleFunctionError
           /\ last'.op = "call" /\ last'.target = t) =>
            /\ ~last'.intercepted
            /\ last'.invoked = "original"
            /\ last'.ret = CallFunc(t, FullPos(t, last'.pos), last'.kw)
            /\ UNCHANGED spyState]_vars

\* spy_on(obj.do_math, call_fake=lambda a, b: ...) was refused: do_math
\* takes *args and **kwargs, the lambda does not.
C13_Witness ==
  /\ last.op = "spy_on"
  /\ last.target = "do_math"
  /\ last.ret = IncompatibleFunctionError
  /\ LacksVarargs("do_math", "lambda_ab")
  /\ ~spy["do_math"].active
  /\ spies = {}

\* What an intercepted call was dispatched to, by what spy_on() was given:
\* the operation, else call_fake, else the original function if
\* call_original, else nothing (the call returns None).
DispatchedByPrecedence ==
  Intercepted =>
    LET g == given[last.target]
        recorded == CallFunc(last.target, FullPos(last.target, Record.args),
                             Record.kwargs)
    IN IF g.op.type # "none"
       THEN /\ spy[last.target].func.kind = "op"
            /\ g.op.type = "Return" =>
                 last.invoked = "op" /\ last.ret = Return(g.op.return_value)
            /\ g.op.type = "Raise" =>
                 last.invoked = "op" /\ last.ret = Raise(g.op.exc)
            /\ g.op.type \in {"MatchAny", "MatchInOrder"} =>
                 \/ last.matched = 0 /\ Unexpected
                 \/ last.matched > 0
       ELSE IF g.call_fake # NoFunc
       THEN /\ last.invoked = "call_fake"
            /\ last.ret = CallFunc(g.call_fake.name,
                                   FullPos(last.target, Record.args), Record.kwargs)
       ELSE IF g.call_original
       THEN last.invoked = "original" /\ last.ret = recorded
       ELSE last.invoked = "none" /\ last.ret = Return(None)

\* C14 (as written): whatever combination of op, call_fake and call_original
\* spy_on() is given, the spy is created and dispatches to the operation if
\* given, else to call_fake if given, else to the original if call_original,
\* else to nothing.
C14_HighestPrecedenceUsed ==
  [][/\ DispatchedByPrecedence'
     /\ \A t \in Targets : \A cfg \in BothConfigs :
          ~spy[t].active /\ SpyOn(t, cfg) =>
            spy'[t].active /\ spy'[t].func.kind = "op"]_vars

\* C14 (amended): spy_on() given both op and call_fake raises ValueError and
\* creates no spy; given any other combination of op, call_fake and
\* call_original, the spy dispatches to the operation if given, else to
\* call_fake if given, else to the original if call_original, else to nothing.
C14_PrecedenceUnlessBoth ==
  [][/\ DispatchedByPrecedence'
     /\ \A t \in Targets : \A cfg \in BothConfigs :
          ~spy[t].active /\ SpyOn(t, cfg) =>
            /\ last'.ret = Raise(PlainExc("ValueError"))
            /\ ~spy'[t].active
            /\ UNCHANGED spyState]_vars

\* call_fake and call_original=True given together: the call went to
\* call_fake, whose result is not the original's.
C14_Witness ==
  /\ Intercepted
  /\ given[last.target].op = NoOp
  /\ given[last.target].call_fake = UserFunc("fake_do_math")
  /\ given[last.target].call_original
  /\ last.invoked = "call_fake"
  /\ last.ret = Return(1)
  /\ CallFunc(last.target, FullPos(last.target, Record.args), Record.kwargs) = Return(3)

\* C15: once the spy of a function was released, every call of the function
\* runs the function as written, with the arguments as written, and is not
\* intercepted: no record is added and nothing of the spy changes.
C15_CallsAfterUnspyRunOriginal ==
  [][\A t \in Targets :
       released[t] # None /\ last'.op = "call" /\ last'.target = t =>
         /\ ~spy[t].active
         /\ ~last'.intercepted
         /\ last'.invoked = "original"
         /\ last'.ret = CallFunc(t, FullPos(t, last'.pos), last'.kw)
         /\ calls'[t] = <<>> /\ ~called'[t] /\ last_call'[t] = <<>>
         /\ UNCHANGED spyState]_vars

\* A spy replacing do_math by a fake recorded a call and was released; the
\* next call do_math(2, 1) got 3 from the original.
C15_Witness ==
  /\ last.op = "call"
  /\ last.target = "do_math"
  /\ released["do_math"] = 1
  /\ ~last.intercepted
  /\ last.invoked = "original"
  /\ last.pos = <<2, 1>>
  /\ last.ret = Return(3)
  /\ calls["do_math"] = <<>>

\* What the queries are asked about: return values, exception classes, and
\* the arguments and keyword arguments of the calls made.
AskedValues == {None, 1, 3, 123}
AskedClasses == ExceptionClasses \cup BaseOnlyClasses \cup {"None"}

\* What the queries of the spy of t answer.
Answers(t) ==
  [calls |-> FunctionSpyCalls(t),
   called |-> FunctionSpyCalled(t),
   last_call |-> FunctionSpyLastCall(t),
   called_with |-> [site \in CallSites |-> FunctionSpyCalledWith(t, site.pos, site.kw)],
   last_called_with |->
     [site \in CallSites |-> FunctionSpyLastCalledWith(t, site.pos, site.kw)],
   returned |-> [v \in AskedValues |-> FunctionSpyReturned(t, v)],
   last_returned |-> [v \in AskedValues |-> FunctionSpyLastReturned(t, v)],
   raised |-> [c \in AskedClasses |-> FunctionSpyRaised(t, c)],
   last_raised |-> [c \in AskedClasses |-> FunctionSpyLastRaised(t, c)]]

C17_SecondUnspyFails ==
  [][\A t \in Targets :
       released[t] # None /\ last'.op = "unspy" /\ last'.target = t =>
         /\ ~spy[t].active /\ t \notin spies
         /\ last'.ret = Raise(PlainExc("ValueError"))
         /\ ~spy'[t].active
         /\ UNCHANGED spyState]_vars

\* The second unspy() of a function whose spy had recorded a call.
C17_Witness ==
  /\ last.op = "unspy"
  /\ last.ret = Raise(PlainExc("ValueError"))
  /\ released[last.target] = 1
  /\ ~spy[last.target].active
  /\ spies = {}

\* The functions that have a spy: the spies that were created and not
\* released.
Active == {t \in Targets : spy[t].active}

\* C18: unspy_all() releases every spy of the set, also when the release of
\* one of them fails, and clears the set: after it the set is empty and no
\* function has a spy.
C18_UnspyAllEmptiesTheSet ==
  [][last'.op = "unspy_all" =>
       /\ spies' = {} /\ lost' = {}
       /\ Active' = {}]_vars

\* How the set of the agency changes: a spy enters it with a spy_on() that
\* returned, and a spy that is not released leaves it with no operation.
MembershipSteps ==
  /\ \A t \in spies' \ spies :
       last'.op = "spy_on" /\ last'.target = t /\ last'.ret = Return(None)
  /\ last'.op = "spy_on" /\ last'.ret.kind = "raise" => spies' = spies /\ lost' = lost
  /\ \A t \in spies \ spies' :
       /\ ~spy'[t].active
       /\ \/ last'.op \in {"unspy", "spy.unspy"} /\ last'.target = t
          \/ last'.op = "unspy_all"
  /\ \A t \in lost \ lost' : last'.op = "unspy_all" /\ last'.ret = Return(None)

\* C19 (as written): in every state the set of the agency holds exactly the
\* spies created by its spy_on() and not released; a spy is added only by a
\* spy_on() that succeeds, and removed only by a release.
C19_SetIsExactlyTheActiveSpies ==
  [][/\ spies' = Active' /\ lost' = {}
     /\ MembershipSteps]_vars

\* C19 (amended): in every state the set of the agency holds every spy
\* created by its spy_on() and not released, and besides them only spies
\* released without leaving the set: by unspy(unregister=False), or by an
\* unspy_all() that raised before it cleared the set. A spy is added only by
\* a spy_on() that succeeds, and removed only by a release.
C19_SetHoldsTheActiveSpies ==
  [][/\ spies' = Active'
     /\ \A t \in lost' \ lost :
          /\ t \in spies /\ ~spy'[t].active
          /\ \/ last'.op = "spy.unspy" /\ last'.target = t
             \/ last'.op = "unspy_all" /\ last'.ret.kind = "raise"
     /\ MembershipSteps]_vars

\* spy_on() refused a call_fake for do_math while do_math_pos has a spy: the
\* set holds the spy of do_math_pos alone.
C19_Witness ==
  /\ last.op = "spy_on"
  /\ last.target = "do_math"
  /\ last.ret = IncompatibleFunctionError
  /\ spy["do_math_pos"].active
  /\ spies = {"do_math_pos"}
  /\ lost = {}

\* What the queries about exceptions say of the intercepted call that ended
\* with the outcome out, and of the spy that recorded it: raised(None) is
\* true exactly when the call returned; raised(T) for a class T is true only
\* when the call raised an exception whose class is T itself; the spy's
\* raised is true iff it is for one of its calls, last_raised iff it is for
\* the last one.
RaisedTellsTheOutcome(t, call, out) ==
  /\ SpyCallRaised(call, "None") <=> out.kind = "return"
  /\ \A c \in AskedClasses \ {"None"} :
       SpyCallRaised(call, c) => out.kind = "raise" /\ out.exc.cls = c
  /\ \A c \in AskedClasses :
       /\ FunctionSpyRaised(t, c) <=>
            \E i \in 1..Len(calls[t]) : SpyCallRaised(calls[t][i], c)
       /\ FunctionSpyLastRaised(t, c) <=>
            SpyCallRaised(calls[t][Len(calls[t])], c)

\* C20: raised(None) is true exactly of the calls that completed without
\* raising, raised(T) only of calls that raised an exception of the exact
\* class T, and the spy's raised and last_raised follow its calls.
C20_RaisedQueries ==
  Intercepted => RaisedTellsTheOutcome(last.target, Record, last.ret)

\* C21: for a function with a spy, after any calls and reset_calls(),
\* called_with() without arguments is true iff called is true iff calls is
\* not empty, and last_call is the last element of calls, None when calls is
\* empty.
C21_CalledAgreesWithCalls ==
  \A t \in Targets :
    spy[t].active =>
      /\ FunctionSpyCalledWith(t, <<>>, NoKwargs) <=> FunctionSpyCalled(t)
      /\ FunctionSpyCalled(t) <=> FunctionSpyCalls(t) # <<>>
      /\ FunctionSpyLastCall(t) =
           IF FunctionSpyCalls(t) = <<>> THEN <<>>
           ELSE <<FunctionSpyCalls(t)[Len(FunctionSpyCalls(t))]>>

\* reset_calls() after two calls: calls is empty, called False, last_call
\* None.
C21_Witness ==
  /\ last.op = "reset_calls"
  /\ spy[last.target].active
  /\ total[last.target] = 2
  /\ FunctionSpyCalls(last.target) = <<>>
  /\ ~FunctionSpyCalled(last.target)
  /\ ~FunctionSpyCalledWith(last.target, <<>>, NoKwargs)


\* The arguments of a signature that a call can fill by position, and those
\* among them that have no default, without the receiver of a method.
WithoutReceiver(names) ==
  IF probe.source.func_type = TYPE_BOUND_METHOD /\ names # <<>> THEN Rest(names)
  ELSE names

PositionalOrKeyword(sig) == SeqToSet(WithoutReceiver(sig.all_arg_names))

Required(sig) == SeqToSet(WithoutReceiver(sig.arg_names))

KeywordOnly(sig) == SeqToSet(sig.kwarg_names) \ SeqToSet(sig.all_arg_names)

BothCatchAlls(sig) == sig.args_param_name /\ sig.kwargs_param_name

\* C22 as stated: when the original and the candidate differ in their number
\* of positional-or-keyword names and the candidate lacks one of *args and
\* **kwargs, is_compatible_with answers True only if the original has fewer
\* and the candidate has *args, or the original has more and the candidate
\* has *args or takes each extra name as keyword-only or through **kwargs.
C22_CountRuleOnAllNames ==
  LET o == probe.source
      c == probe.candidate
      n_o == Cardinality(PositionalOrKeyword(o))
      n_c == Cardinality(PositionalOrKeyword(c))
      extra == PositionalOrKeyword(o) \ PositionalOrKeyword(c)
  IN (probe.asked /\ n_o # n_c /\ ~BothCatchAlls(c)) =>
       (probe.result =>
          \/ n_o < n_c /\ c.args_param_name
          \/ /\ n_o > n_c
             /\ \/ c.args_param_name
                \/ c.kwargs_param_name
                \/ extra \subseteq KeywordOnly(c))

\* C22 amended: the numbers compared are those of the arguments without a
\* default. When they differ and the candidate lacks one of *args and
\* **kwargs, is_compatible_with answers True only if the original has
\* fewer and either has *args (as the candidate then has) or has each of its
\* such arguments among the defaulted and keyword-only names of the
\* candidate, or the original has more and the candidate has *args.
C22_CountRuleOnRequiredNames ==
  LET o == probe.source
      c == probe.candidate
      n_o == Cardinality(Required(o))
      n_c == Cardinality(Required(c))
  IN (probe.asked /\ n_o # n_c /\ ~BothCatchAlls(c)) =>
       (probe.result =>
          \/ /\ n_o < n_c
             /\ \/ o.args_param_name /\ c.args_param_name
                \/ Required(o) \subseteq SeqToSet(c.kwarg_names)
          \/ n_o > n_c /\ c.args_param_name)

\* def original(a) is replaced by def candidate(b, c, a=1).
C22_Witness ==
  /\ probe.asked /\ probe.result
  /\ ~BothCatchAlls(probe.candidate)
  /\ ~probe.source.args_param_name /\ ~probe.candidate.args_param_name
  /\ Required(probe.source) = {"a"}
  /\ Required(probe.candidate) = {"b", "c"}
  /\ "a" \in SeqToSet(probe.candidate.kwarg_names)

\* C23: is_compatible_with answers True only if the candidate can take each
\* keyword-only name of the original, as a positional-or-keyword name, as a
\* keyword-only name or through **kwargs; and a candidate that declares the
\* parameters of the original, its keyword-only names among them, is
\* compatible with it.
C23_KeywordOnlyNamesSatisfiable ==
  LET o == probe.source
      c == probe.candidate
  IN probe.asked =>
       /\ probe.result =>
            \A k \in KeywordOnly(o) :
              \/ k \in SeqToSet(c.all_arg_names)
              \/ k \in KeywordOnly(c)
              \/ c.kwargs_param_name
       /\ ( /\ c.all_arg_names = o.all_arg_names
            /\ c.arg_names = o.arg_names
            /\ c.kwarg_names = o.kwarg_names
            /\ c.args_param_name = o.args_param_name
            /\ c.kwargs_param_name = o.kwargs_param_name ) => probe.result

\* C24: an assertion of the agency made on a function that has no spy, or
\* has none any more, raises the assertion failure that names the function.
C24_AssertImpliesHasSpy ==
  (last.op \in AssertHelpers /\ ~spy[last.target].active) =>
    /\ last.ret.kind = "raise"
    /\ last.ret.exc.cls = "AssertionError"
    /\ last.ret.exc.spy = last.target

\* C25: call_original gives what the function as written gives for the
\* arguments, and leaves calls, called and last_call as they were (and
\* with them the cursor of the operation and the spy itself), whether the
\* spy calls the original, a call_fake, nothing or an operation.
C25_CallOriginalLeavesNoTrace ==
  [][last'.op = "call_original" =>
       /\ last'.ret = CallFunc(last'.target, FullPos(last'.target, last'.pos), last'.kw)
       /\ calls' = calls /\ called' = called /\ last_call' = last_call
       /\ next' = next /\ spy' = spy /\ spies' = spies]_vars

\* A spy with an operation was called, then call_original gave the sum.
C25_Witness ==
  /\ last.op = "call_original"
  /\ given[last.target].op = SpyOpReturn(123)
  /\ last.ret = Return(3)
  /\ Len(calls[last.target]) = 1
  /\ calls[last.target][1].return_value = 123

\* C26: when SpyOpMatchInOrder raises UnexpectedCallError for a call past
\* the last expectation, the number of calls in its message is the number
\* of calls made to the function so far, that call included, and the number
\* of expected calls is the number of expectations.
C26_OverflowCountIsActual ==
  (HandledBy("MatchInOrder") /\ Unexpected) =>
    /\ last.ret.exc.num_calls = total[last.target]
    /\ last.ret.exc.expected_calls = Len(Expected)

\* The spy on t runs a SpyOpMatchInOrder (after the step, when primed).
InOrderSpy(t) == spy[t].active /\ spy[t].func.kind = "op" /\ spy[t].func.op.type = "MatchInOrder"

\* C27: the cursor of a SpyOpMatchInOrder is 0 when the spy is created, lies
\* between 0 and the number of expectations, and never goes down while the
\* spy lives: no call, accepted, rejected or past the last expectation, and
\* no reset_calls() moves it back.
C27_CursorOnlyAdvances ==
  [][\A t \in Targets :
       InOrderSpy(t)' =>
         /\ next'[t] \in 0..Len(spy'[t].func.op.calls)
         /\ IF spy[t].active THEN next'[t] >= next[t] ELSE next'[t] = 0]_vars

\* reset_calls() of a spy whose two expectations were both used up, after
\* which the cursor still is at the end of the list.
C27_Witness ==
  /\ last.op = "reset_calls"
  /\ InOrderSpy(last.target)
  /\ Len(spy[last.target].func.op.calls) = 2
  /\ next[last.target] = 2
  /\ calls[last.target] = <<>>

\* C28: once setup() has stored a spy in an operation instance, the spy the
\* instance consults stays that one, whatever spy_on() the instance is
\* passed to afterwards, and a call through the spy it was given to first
\* is handled as the operation says.
C28_OperationKeepsItsSpy ==
  [][probe.spy # "" =>
       /\ probe'.spy = probe.spy
       /\ (last'.op = "call" /\ last'.target = probe.spy) =>
             last'.ret = LeafHandleCall(probe.op)]_vars

\* C29: whatever the class of the exception the invoked implementation
\* raises, the record of the call holds that exception once the caller has
\* it; and no record holds both a return value and an exception.
C29_RecordAlwaysCompleted ==
  /\ (Intercepted /\ last.ret.kind = "raise") => Record.exception = last.ret.exc
  /\ \A t \in Targets : \A i \in 1..Len(calls[t]) :
       calls[t][i].return_value = None \/ calls[t][i].exception = NoExc

\* What an access x.do_math finds: the function, its spy and its calls.
Reached(sc, sp, cs, x) ==
  [func |-> Resolve(sc, x), spy |-> sp[Resolve(sc, x)], calls |-> cs[Resolve(sc, x)]]

\* The owner is an instance or a class that inherits the method.
InheritingOwner(owner) == owner # "MathClass"

\* C30: the spy made through an instance or an inheriting subclass is found
\* only by accesses that go through that owner: every other instance, the
\* defining class and the parent reach a function without that spy; a call
\* is recorded by the spy of the function it reaches and by no other; and
\* spy_on and unspy through such an owner leave what the accesses that do
\* not go through it find as it was.
C30_OnlyThroughTheOwner ==
  [][/\ \A x \in Owners :
          LET r == Reached(scope', spy', calls', x)
          IN (r.spy.active /\ InheritingOwner(r.spy.owner)) =>
               r.spy.owner \in SeqToSet(OwnerChain(x))
     /\ last'.op = "call" =>
          \A f \in Owners \ {Resolve(scope, last'.target)} : calls'[f] = calls[f]
     /\ (last'.op \in {"spy_on", "unspy"} /\ InheritingOwner(last'.target)) =>
          \A x \in Owners :
            (/\ last'.target \notin SeqToSet(OwnerChain(x))
             /\ spy[Resolve(scope, last'.target)].active =>
                   spy[Resolve(scope, last'.target)].owner \notin SeqToSet(OwnerChain(x)))
            => Reached(scope', spy', calls', x) = Reached(scope, spy, calls, x)]_vars

\* obj is spied on and was called; obj2 and the two classes have no spy.
C30_Witness ==
  /\ last.op = "call" /\ last.target = "obj" /\ last.intercepted
  /\ spy["obj"].active /\ spy["obj"].owner = "obj"
  /\ Len(calls["obj"]) = 1
  /\ \A x \in Owners \ {"obj"} : ~spy[Resolve(scope, x)].active
====
